---------------------------- MODULE Spec2Model ----------------------------
(***************************************************************************)
(* A model of the biometric recommendation and ingestion pipeline:         *)
(*                                                                         *)
(*   backend    src/backend/api_backend.py and                             *)
(*              src/backend/services/recommender_service.py: per-user      *)
(*              session state, recommend, maybe_emit_recommendation, the   *)
(*              /telemetry, /recommendation and /feedback handlers;        *)
(*   consumer   src/backend/redis_consumer.py: the consumer-group loop     *)
(*              over the telemetry stream;                                 *)
(*   ingestion  src/ingestion/ingestion_service.py: the telemetry queue,   *)
(*              its worker, and the archival buffer.                       *)
(*                                                                         *)
(* Floats are fixed-point integers with SCALE units per 1.0, rounded       *)
(* towards minus infinity; times are whole seconds.                        *)
(***************************************************************************)
EXTENDS Integers, Sequences, FiniteSets, TLC

\* Python's None: for a track id or a user id the string below, for a track
\* record NoTrack, for an optional number or time the empty tuple Nothing
\* (Just(v) otherwise).
None == "None"

NoTrack == [id |-> None]

Nothing == << >>

Just(v) == << v >>

Val(o) == o[1]

\* ------------------------------------------------------------------------
\* Bounds of the model
\* ------------------------------------------------------------------------

\* recommender_service.py:83  history_seconds (deque maxlen), a constructor
\* parameter; the model runs the service with a short window.
HistoryWindow == 2

\* The clock stops advancing here.
MaxTime == 59

\* The same for the runs of the request handlers.
MaxHandlerTime == 30

\* Telemetry samples in a run of the backend.
MaxStamp == 3

\* ------------------------------------------------------------------------
\* Program constants
\* ------------------------------------------------------------------------

MIN_TRACK_DURATION == 30
TREND_THRESHOLD == 5
DEFAULT_REST_HR == 60
DEFAULT_MAX_HR == 190
DEFAULT_USER_ID == "demo-user"

\* Fixed-point unit: SCALE stands for 1.0.
SCALE == 1000

\* ------------------------------------------------------------------------
\* Inputs
\* ------------------------------------------------------------------------

Users == {DEFAULT_USER_ID, "7"}

\* The user whose session the interface-level specification drives.
PolicyUsers == {DEFAULT_USER_ID}

HRValues == {70, 150}

\* How far the wall clock moves between two observations of it.
TickSteps == {MIN_TRACK_DURATION - 1, MIN_TRACK_DURATION}

\* The catalog load_tracks returns, in file order.  energy, danceability
\* and valence in SCALE units, tempo in bpm.
Catalog ==
  << [id |-> "t1", energy |-> 100, danceability |-> 500, tempo |-> 120,
      valence |-> 500, artist_set |-> {"a"}],
     [id |-> "t2", energy |-> 700, danceability |-> 500, tempo |-> 120,
      valence |-> 500, artist_set |-> {"b"}],
     [id |-> "t3", energy |-> 900, danceability |-> 600, tempo |-> 140,
      valence |-> 400, artist_set |-> {"a", "b"}] >>

TrackIds == {Catalog[i].id : i \in 1..Len(Catalog)}

\* ------------------------------------------------------------------------
\* recommender_service.py: arithmetic helpers
\* ------------------------------------------------------------------------

Abs(v) == IF v < 0 THEN -v ELSE v

Min2(a, b) == IF a < b THEN a ELSE b

Max2(a, b) == IF a > b THEN a ELSE b

\* A clamp without its lower bound.
clamp_without_floor(value, minimum, maximum) == Min2(maximum, value)

clamp(value, minimum, maximum) == Max2(minimum, Min2(maximum, value))

RECURSIVE SumSeq(_)
SumSeq(s) == IF s = << >> THEN 0 ELSE Head(s) + SumSeq(Tail(s))

\* floor(sqrt(n)) by bisection on [lo, hi].
RECURSIVE ISqrtIn(_, _, _)
ISqrtIn(n, lo, hi) ==
  IF lo >= hi THEN lo
  ELSE LET mid == (lo + hi + 1) \div 2
       IN  IF mid * mid <= n THEN ISqrtIn(n, mid, hi)
           ELSE ISqrtIn(n, lo, mid - 1)

ISqrt(n) == ISqrtIn(n, 0, Min2(n, 46340))

\* feature_vector = [danceability, energy, tempo / 200.0, valence]
feature_vector(track) ==
  << track.danceability, track.energy, (track.tempo * SCALE) \div 200,
     track.valence >>

\* 1 / (1 + sqrt(sum((a - b) ** 2)))
_euclidean_similarity(vec_a, vec_b) ==
  LET n  == Min2(Len(vec_a), Len(vec_b))
      sq == [i \in 1..n |-> (vec_a[i] - vec_b[i]) * (vec_a[i] - vec_b[i])]
      distance == ISqrt(SumSeq(sq))
  IN  (SCALE * SCALE) \div (SCALE + distance)

\* The overlap measured against the previous track's artists alone.
_artist_similarity_over_previous(previous, current) ==
  IF previous = {} \/ current = {} THEN SCALE \div 2
  ELSE (Cardinality(previous \cap current) * SCALE)
         \div Cardinality(previous)

\* |A & B| / |A | B|, 0.5 when either set is empty.
_artist_similarity(previous, current) ==
  IF previous = {} \/ current = {} THEN SCALE \div 2
  ELSE LET intersection == Cardinality(previous \cap current)
           union == Cardinality(previous \cup current)
       IN  IF union = 0 THEN 0 ELSE (intersection * SCALE) \div union

\* ------------------------------------------------------------------------
\* recommender_service.py: RecommenderService
\* ------------------------------------------------------------------------

\* A deque without maxlen.
observe_append_unbounded(history, hr) == Append(history, hr)

\* deque(maxlen = history_seconds).append
observe_append(history, hr) ==
  LET h == Append(history, hr)
  IN  IF Len(h) > HistoryWindow THEN Tail(h) ELSE h

\* The last sample against the mean of the whole window.
_trend_over_whole_window(history) ==
  IF Len(history) <= 1 THEN 0
  ELSE ((history[Len(history)] * Len(history) - SumSeq(history)) * SCALE)
         \div Len(history)

\* history[-1] - mean(history[:-1]) in SCALE units; 0 for at most one sample.
_trend(history) ==
  IF Len(history) <= 1 THEN 0
  ELSE LET previous == SubSeq(history, 1, Len(history) - 1)
           last     == history[Len(history)]
       IN  ((last * Len(previous) - SumSeq(previous)) * SCALE)
             \div Len(previous)

\* Line 126: hrr = max(max_hr - rest_hr, 1.0)
hrr(user_profile) == Max2(user_profile.max_hr - user_profile.rest_hr, 1)

\* The nudge with thresholds that include TREND_THRESHOLD itself.
Intensity_nonstrict(user_profile, history) ==
  LET rest_hr    == user_profile.rest_hr
      current_hr == history[Len(history)]
      trend      == _trend(history)
      intensity0 == clamp(((current_hr - rest_hr) * SCALE)
                            \div hrr(user_profile), 0, SCALE)
  IN  IF trend >= TREND_THRESHOLD * SCALE
        THEN clamp(intensity0 + SCALE \div 20, 0, SCALE)
      ELSE IF trend <= -(TREND_THRESHOLD * SCALE)
        THEN clamp(intensity0 - SCALE \div 20, 0, SCALE)
      ELSE intensity0

\* Lines 121-131: heart-rate reserve, intensity, trend nudge.
Intensity(user_profile, history) ==
  LET rest_hr    == user_profile.rest_hr
      current_hr == history[Len(history)]
      trend      == _trend(history)
      intensity0 == clamp(((current_hr - rest_hr) * SCALE)
                            \div hrr(user_profile), 0, SCALE)
  IN  IF trend > TREND_THRESHOLD * SCALE
        THEN clamp(intensity0 + SCALE \div 20, 0, SCALE)
      ELSE IF trend < -(TREND_THRESHOLD * SCALE)
        THEN clamp(intensity0 - SCALE \div 20, 0, SCALE)
      ELSE intensity0

\* Lines 133-137: the target built from the current track.
TargetOf(current_track, intensity) ==
  LET has            == current_track.id # None
      target_valence == IF has THEN current_track.valence ELSE SCALE \div 2
      target_dance   == IF has THEN current_track.danceability ELSE SCALE \div 2
      target_tempo   == IF has THEN current_track.tempo ELSE 120
  IN  [valence |-> target_valence, dance |-> target_dance,
       vector  |-> << target_dance, intensity, (target_tempo * SCALE) \div 200,
                      target_valence >>,
       artists |-> IF has THEN current_track.artist_set ELSE {}]

\* An alignment that grows with the distance from the intensity.
energy_alignment_by_distance(track, intensity) ==
  Abs(track.energy - intensity)

\* Lines 147-157: the six terms of a track's score.
energy_alignment(track, intensity) == SCALE - Abs(track.energy - intensity)

valence_similarity(track, target) ==
  SCALE - Min2(SCALE, Abs(track.valence - target.valence))

dance_similarity(track, target) ==
  SCALE - Min2(SCALE, Abs(track.danceability - target.dance))

artist_similarity(track, target) ==
  _artist_similarity(target.artists, track.artist_set)

feature_similarity(track, target) ==
  _euclidean_similarity(feature_vector(track), target.vector)

preference_similarity(track, preference_vector) ==
  IF preference_vector # << >>
    THEN _euclidean_similarity(feature_vector(track), preference_vector)
  ELSE SCALE \div 2

\* Lines 158-165: the weighted sum, in units of SCALE / 100 (the weights
\* are hundredths).
combined_score(track, target, intensity, preference_vector) ==
  35 * energy_alignment(track, intensity)
    + 20 * artist_similarity(track, target)
    + 15 * preference_similarity(track, preference_vector)
    + 10 * valence_similarity(track, target)
    + 10 * dance_similarity(track, target)
    + 10 * feature_similarity(track, target)

\* The scan that skips nothing.
Skipped_never(track, blacklist_set, excluded) == FALSE

\* The scan with the blacklist test left out.
Skipped_without_blacklist(track, blacklist_set, excluded) ==
  track.id \in excluded

\* Line 145: tracks the loop skips.
Skipped(track, blacklist_set, excluded) ==
  track.id \in blacklist_set \/ track.id \in excluded

\* A comparison that lets a later track with an equal score win.
replaces_best_on_ties(score, best_score) == score >= best_score

\* Line 166: if combined_score > best_score
replaces_best(score, best_score) == score > best_score

\* Lines 142-168: the scan from catalog position i on; a strictly better
\* score replaces the best so far.
RECURSIVE BestFrom(_, _, _, _, _, _, _, _)
BestFrom(tracks, i, best_track, best_score, target, intensity, pref, skip) ==
  IF i > Len(tracks) THEN best_track
  ELSE LET track == tracks[i]
       IN  IF Skipped(track, skip.blacklist, skip.excluded)
             THEN BestFrom(tracks, i + 1, best_track, best_score, target,
                           intensity, pref, skip)
           ELSE LET score == combined_score(track, target, intensity, pref)
                IN  IF replaces_best(score, best_score)
                      THEN BestFrom(tracks, i + 1, track, score, target,
                                    intensity, pref, skip)
                    ELSE BestFrom(tracks, i + 1, best_track, best_score,
                                  target, intensity, pref, skip)

\* RecommenderService.recommend over catalog `tracks`: the chosen track
\* record, or NoTrack.  history is self.hr_history.get(user_id); an absent
\* preference_vector is << >>.
recommend_in(tracks, user_profile, history, current_track, blacklist, preference_vector, exclude_track_ids) ==
  IF history = << >> \/ tracks = << >> THEN NoTrack
  ELSE LET intensity == Intensity(user_profile, history)
           target    == TargetOf(current_track, intensity)
       IN  BestFrom(tracks, 1, NoTrack, -(100 * SCALE), target, intensity,
                    preference_vector,
                    [blacklist |-> blacklist, excluded |-> exclude_track_ids])

\* track_index lookup
get_track(track_id) ==
  IF track_id = None THEN NoTrack
  ELSE LET hit == {i \in 1..Len(Catalog) : Catalog[i].id = track_id}
       IN  IF hit = {} THEN NoTrack
           ELSE Catalog[CHOOSE i \in hit : \A j \in hit : i >= j]

\* The histories a window can hold.
Histories == UNION {[1..n -> HRValues] : n \in 0..HistoryWindow}

\* recommend as the backend calls it (api_backend.py:268-273, 352-357): no
\* preference vector, no exclusions; the current track is given by its id.
\* Tabulated once over the inputs the backend can pass.
recommend_table ==
  [rest_hr \in {DEFAULT_REST_HR, 50}, max_hr \in {DEFAULT_MAX_HR, 180},
   history \in Histories, current \in TrackIds \cup {None},
   blacklist \in SUBSET TrackIds |->
     recommend_in(Catalog, [rest_hr |-> rest_hr, max_hr |-> max_hr], history,
                  get_track(current), blacklist, << >>, {})] @@ << >>

recommend(user_profile, history, current, blacklist) ==
  recommend_table[user_profile.rest_hr, user_profile.max_hr, history,
                  current, blacklist]

\* ------------------------------------------------------------------------
\* State
\* ------------------------------------------------------------------------

VARIABLES
  \* backend process (src/backend/api_backend.py)
  now,                        \* time.time() of the backend host, in seconds
  hr_history,                 \* recommender.hr_history: user -> samples
  latest_global_hr,           \* api_backend.py:84
  latest_global_hr_timestamp, \* api_backend.py:85
  telemetry_rows,             \* table telemetry: the newest row
  hr_broadcasts,              \* socketio "hr": the newest event
  user_hr_versions,           \* api_backend.py:86
  user_latest_hr,             \* api_backend.py:87
  latest_track,               \* api_backend.py:88: user -> track id
  last_track_change,          \* api_backend.py:89
  active_users,               \* api_backend.py:90
  user_blacklist,             \* table user_blacklist: user -> track ids
  recommendation_rows,        \* table recommendations: user -> newest row
  track_broadcasts,           \* socketio "track": user -> newest event
  switch_calls,               \* user -> the call that emitted that event
  last_request,               \* the latest request handled and its outcome
  \* Redis stream and its consumer (src/backend/redis_consumer.py)
  stream,                     \* the entries of the stream; an entry's id is
                              \* its position
  group_created,              \* whether group "backend" exists
  last_delivered,             \* the group's last-delivered id
  pending,                    \* the group's pending entries list: records
                              \* of an entry id and the consumer it went to
  consumer_name,              \* self.consumer_name
  consumer_pc,                \* where the consumer thread stands
  messages,                   \* entries of the current read still to handle
  stop_flag,                  \* self._stop
  handled,                    \* entry id -> outcome of its handler call
  processed,                  \* entry ids whose handle_telemetry returned
  acked,                      \* entry ids acknowledged with XACK
  crashes,                    \* how often the backend process has died
  \* ingestion process (src/ingestion/ingestion_service.py)
  clock,                      \* time.time() of the ingestion host
  redis_client,               \* ingestion_service.py:40: whether it is set
  storage_enabled,            \* storage_client.enabled
  telemetry_queue,            \* ingestion_service.py:63
  stop_event,                 \* ingestion_service.py:64
  storage_buffer,             \* ingestion_service.py:59
  last_storage_flush,         \* ingestion_service.py:60
  worker_pc,                  \* where the thread telemetry_worker stands
  payload,                    \* the worker's local `payload`
  main_pc,                    \* where the main thread stands
  flush,                      \* thread -> its _flush_storage_buffer frame
  enqueued,                   \* every sample enqueue_telemetry appended
  dequeued,                   \* every sample popleft returned
  forwarded,                  \* every sample sent, with its transport
  buffered,                   \* every sample appended to storage_buffer
  uploaded,                   \* every batch the object store accepted
  worker_failures,            \* exceptions raised by the worker's statements
  \* the backend's threads inside handle_telemetry (api_backend.py:295-304)
  calls,                      \* thread -> its frame
  \* RecommenderService on its own (recommender_service.py:80-192)
  probe                       \* the service's fields, the arguments of the
                              \* latest recommend call and what it returned

backendVars ==
  << now, hr_history, latest_global_hr, latest_global_hr_timestamp,
     telemetry_rows, hr_broadcasts,
     user_hr_versions, user_latest_hr, latest_track, last_track_change,
     active_users, user_blacklist, recommendation_rows, track_broadcasts,
     switch_calls, last_request >>

consumerVars ==
  << stream, group_created, last_delivered, pending, consumer_name,
     consumer_pc, messages, stop_flag, handled, processed, acked,
     crashes >>

ingestionVars ==
  << clock, redis_client, storage_enabled, telemetry_queue, stop_event,
     storage_buffer, last_storage_flush, worker_pc, payload, main_pc, flush,
     enqueued, dequeued, forwarded, buffered, uploaded, worker_failures >>

threadVars == << calls >>

probeVars == << probe >>

vars == << backendVars, consumerVars, ingestionVars, threadVars, probeVars >>

NoRequest == [op |-> None]

\* No row of table recommendations, no broadcast, for a user yet.
NoRow == [track_id |-> None]
NoSample == [hr |-> None]

\* No call of maybe_emit_recommendation has emitted for a user yet.
NoCall ==
  [force_switch |-> FALSE, replaced |-> None, blacklist |-> {},
   gap |-> Nothing]

\* Timestamps a telemetry sample may carry (payload["timestamp"]); only
\* their equality is ever used (api_backend.py:170).  The producer stamps
\* its samples in increasing order.
Stamps == 1..MaxStamp

\* The samples that may arrive next: a new one, stamped later than the
\* latest, or the latest one once more.
NextSamples ==
  LET latest == IF latest_global_hr_timestamp = Nothing THEN 0
                ELSE Val(latest_global_hr_timestamp)
  IN  {s \in [hr : HRValues, timestamp : Stamps] :
         \/ s.timestamp = latest + 1
         \/ s.timestamp = latest /\ Just(s.hr) = latest_global_hr}

\* ------------------------------------------------------------------------
\* api_backend.py: profiles and the blacklist table
\* ------------------------------------------------------------------------

\* Rows of table users, keyed by id: user "7" has signed up with its own
\* resting and maximum heart rate.
users_table == [id \in {"7"} |-> [rest_hr |-> 50, max_hr |-> 180]]

get_user_profile(user_id) ==
  IF user_id \in DOMAIN users_table
    THEN [user_id |-> user_id, rest_hr |-> users_table[user_id].rest_hr,
          max_hr |-> users_table[user_id].max_hr]
  ELSE [user_id |-> user_id, rest_hr |-> DEFAULT_REST_HR,
        max_hr |-> DEFAULT_MAX_HR]

\* SELECT track_id FROM user_blacklist WHERE user_id = ?
get_blacklist(blacklist, user_id) == blacklist[user_id]

\* An insert that does not bind user_id.
add_to_blacklist_all_users(blacklist, user_id, track_id) ==
  IF track_id = None THEN blacklist
  ELSE [u \in DOMAIN blacklist |-> blacklist[u] \cup {track_id}]

\* INSERT OR IGNORE; nothing for a missing or empty track_id.
add_to_blacklist(blacklist, user_id, track_id) ==
  IF track_id = None THEN blacklist
  ELSE [blacklist EXCEPT ![user_id] = @ \cup {track_id}]

\* ------------------------------------------------------------------------
\* api_backend.py: _ensure_user_hr and maybe_emit_recommendation
\* ------------------------------------------------------------------------

\* The part of the state one maybe_emit_recommendation call reads and
\* writes, as a record, so that handle_telemetry can chain the calls of its
\* loop.
Session ==
  [hr_history |-> hr_history, user_hr_versions |-> user_hr_versions,
   user_latest_hr |-> user_latest_hr, latest_track |-> latest_track,
   last_track_change |-> last_track_change,
   recommendation_rows |-> recommendation_rows,
   track_broadcasts |-> track_broadcasts, switch_calls |-> switch_calls]

\* A recommender that keeps one history for all users.
_ensure_user_hr_one_history(S, global_hr, global_ts, user_id) ==
  IF global_hr = Nothing \/ global_ts = Nothing THEN S
  ELSE IF S.user_hr_versions[user_id] = global_ts THEN S
  ELSE [S EXCEPT
          !.hr_history = [u \in DOMAIN @ |->
                            observe_append(@[u], Val(global_hr))],
          !.user_hr_versions[user_id] = global_ts,
          !.user_latest_hr[user_id] = global_hr]

\* Lines 166-174, with observe_hr (recommender_service.py:88-91) appending
\* to the history kept under user_id.
_ensure_user_hr(S, global_hr, global_ts, user_id) ==
  IF global_hr = Nothing \/ global_ts = Nothing THEN S
  ELSE IF S.user_hr_versions[user_id] = global_ts THEN S
  ELSE [S EXCEPT
          !.hr_history[user_id] = observe_append(@, Val(global_hr)),
          !.user_hr_versions[user_id] = global_ts,
          !.user_latest_hr[user_id] = global_hr]

\* The decision that does not treat a user without a track specially.
should_switch_without_first(force_switch, current_id, candidate_id, last_change, t) ==
  /\ candidate_id # current_id
  /\ (force_switch \/ last_change = Nothing
      \/ t - Val(last_change) >= MIN_TRACK_DURATION)
  /\ current_id # None

\* The decision with the dwell test left out.
should_switch_without_dwell(force_switch, current_id, candidate_id, last_change, t) ==
  force_switch \/ current_id = None \/ candidate_id # current_id

\* Lines 278-284.
should_switch(force_switch, current_id, candidate_id, last_change, t) ==
  LET first == force_switch \/ current_id = None
  IN  IF ~first /\ current_id # None
        THEN candidate_id # current_id
             /\ (force_switch \/ last_change = Nothing
                 \/ t - Val(last_change) >= MIN_TRACK_DURATION)
      ELSE first

\* Lines 286-290: the switch to track_id at time t, by a call that was
\* given force_switch, had read `current` as the user's track and had read
\* the user's blacklist as `blacklist_set`.
switch_track(S, user_id, track_id, t, force_switch, current, blacklist_set) ==
  [S EXCEPT
     !.latest_track[user_id] = track_id,
     !.last_track_change[user_id] = Just(t),
     !.recommendation_rows[user_id] =
        [timestamp |-> t, track_id |-> track_id,
         hr |-> S.user_latest_hr[user_id], user_id |-> user_id],
     !.track_broadcasts[user_id] =
        [user_id |-> user_id, track_id |-> track_id],
     !.switch_calls[user_id] =
        [force_switch |-> force_switch,
         replaced |-> current,
         blacklist |-> blacklist_set,
         gap |-> IF S.recommendation_rows[user_id].track_id = None
                   THEN Nothing
                 ELSE Just(t - S.recommendation_rows[user_id].timestamp)]]

\* The call that treats "no track" like a track.
maybe_emit_recommendation_ignoring_none(S0, global_hr, global_ts, blacklist, user_profile, force_switch, t) ==
  LET user_id   == user_profile.user_id
      S         == _ensure_user_hr(S0, global_hr, global_ts, user_id)
      current   == S.latest_track[user_id]
      track     == recommend(user_profile, S.hr_history[user_id], current,
                             get_blacklist(blacklist, user_id))
      switch    == should_switch(force_switch, current, track.id,
                                 S.last_track_change[user_id], t)
  IN  IF switch
        THEN switch_track(S, user_id, track.id, t, force_switch, current,
                          get_blacklist(blacklist, user_id))
      ELSE S

\* maybe_emit_recommendation(user_profile, force_switch) at time t with the
\* blacklist table as given: the session afterwards.
maybe_emit_recommendation(S0, global_hr, global_ts, blacklist, user_profile, force_switch, t) ==
  LET user_id   == user_profile.user_id
      S         == _ensure_user_hr(S0, global_hr, global_ts, user_id)
      current   == S.latest_track[user_id]
      track     == recommend(user_profile, S.hr_history[user_id], current,
                             get_blacklist(blacklist, user_id))
      switch    == track.id # None
                   /\ should_switch(force_switch, current, track.id,
                                    S.last_track_change[user_id], t)
  IN  IF switch
        THEN switch_track(S, user_id, track.id, t, force_switch, current,
                          get_blacklist(blacklist, user_id))
      ELSE S

\* The session record written back to the variables.
Store(S) ==
  /\ hr_history' = S.hr_history
  /\ user_hr_versions' = S.user_hr_versions
  /\ user_latest_hr' = S.user_latest_hr
  /\ latest_track' = S.latest_track
  /\ last_track_change' = S.last_track_change
  /\ recommendation_rows' = S.recommendation_rows
  /\ track_broadcasts' = S.track_broadcasts
  /\ switch_calls' = S.switch_calls

\* The users handle_telemetry serves, in the order its loop visits them.
RECURSIVE SeqOfSet(_)
SeqOfSet(set) ==
  IF set = {} THEN << >>
  ELSE LET x == CHOOSE y \in set : TRUE
       IN  << x >> \o SeqOfSet(set \ {x})

target_users(active) == IF active # {} THEN active ELSE {DEFAULT_USER_ID}

\* Lines 302-304: the loop of handle_telemetry over the users in `order`.
RECURSIVE EmitForAll(_, _, _, _, _, _)
EmitForAll(S, order, global_hr, global_ts, blacklist, t) ==
  IF order = << >> THEN S
  ELSE EmitForAll(
         maybe_emit_recommendation(S, global_hr, global_ts, blacklist,
                                   get_user_profile(Head(order)), FALSE, t),
         Tail(order), global_hr, global_ts, blacklist, t)

\* handle_telemetry(hr, timestamp)
handle_telemetry(hr, timestamp) ==
  /\ latest_global_hr' = Just(hr)
  /\ latest_global_hr_timestamp' = Just(timestamp)
  /\ telemetry_rows' = [timestamp |-> timestamp, hr |-> hr]
  /\ hr_broadcasts' = [hr |-> hr, timestamp |-> timestamp]
  /\ Store(EmitForAll(Session, SeqOfSet(target_users(active_users)),
                      Just(hr), Just(timestamp), user_blacklist, now))

\* ------------------------------------------------------------------------
\* The decision engine driven through its interface: telemetry samples,
\* maybe_emit_recommendation with either value of force_switch, and
\* add_to_blacklist, one call at a time.
\* ------------------------------------------------------------------------

InitBackend ==
  /\ now = 0
  /\ hr_history = [u \in Users |-> << >>]
  /\ latest_global_hr = Nothing
  /\ latest_global_hr_timestamp = Nothing
  /\ telemetry_rows = NoSample
  /\ hr_broadcasts = NoSample
  /\ user_hr_versions = [u \in Users |-> Nothing]
  /\ user_latest_hr = [u \in Users |-> Nothing]
  /\ latest_track = [u \in Users |-> None]
  /\ last_track_change = [u \in Users |-> Nothing]
  /\ active_users = {}
  /\ user_blacklist = [u \in Users |-> {}]
  /\ recommendation_rows = [u \in Users |-> NoRow]
  /\ track_broadcasts = [u \in Users |-> NoRow]
  /\ switch_calls = [u \in Users |-> NoCall]
  /\ last_request = NoRequest

Advance(limit) ==
  /\ UNCHANGED << consumerVars, ingestionVars, threadVars, probeVars >>
  /\ \E d \in TickSteps :
       /\ now + d <= limit
       /\ now' = now + d
       /\ UNCHANGED << hr_history, latest_global_hr, latest_global_hr_timestamp, telemetry_rows, hr_broadcasts,
                       user_hr_versions, user_latest_hr, latest_track,
                       last_track_change, active_users, user_blacklist,
                       recommendation_rows, track_broadcasts, switch_calls,
                       last_request >>

\* The clock of the backend host moves on.
Tick == Advance(MaxTime)

CallHandleTelemetry ==
  /\ UNCHANGED << consumerVars, ingestionVars, threadVars, probeVars >>
  /\ \E s \in NextSamples :
       /\ handle_telemetry(s.hr, s.timestamp)
       /\ UNCHANGED << now, active_users, user_blacklist, last_request >>

\* Lines 268-275, 292: what maybe_emit_recommendation returns, the id of
\* the track recommend gave or None.
maybe_emit_returns(S0, global_hr, global_ts, blacklist, user_profile) ==
  LET user_id == user_profile.user_id
      S       == _ensure_user_hr(S0, global_hr, global_ts, user_id)
  IN  recommend(user_profile, S.hr_history[user_id], S.latest_track[user_id],
                get_blacklist(blacklist, user_id)).id

\* One maybe_emit_recommendation(get_user_profile(u), force_switch) call;
\* last_request keeps the call and what it returned.
MaybeEmitStep(u, force_switch) ==
  /\ UNCHANGED << consumerVars, ingestionVars, threadVars, probeVars >>
  /\ /\ Store(maybe_emit_recommendation(Session, latest_global_hr,
                                        latest_global_hr_timestamp,
                                        user_blacklist, get_user_profile(u),
                                        force_switch, now))
     /\ last_request' =
          [op |-> "maybe_emit_recommendation", user_id |-> u,
           force_switch |-> force_switch,
           returned |-> maybe_emit_returns(Session, latest_global_hr,
                                           latest_global_hr_timestamp,
                                           user_blacklist,
                                           get_user_profile(u))]
     /\ UNCHANGED << now, latest_global_hr, latest_global_hr_timestamp, telemetry_rows, hr_broadcasts,
                     active_users, user_blacklist >>

CallMaybeEmit ==
  \E u \in PolicyUsers, force_switch \in BOOLEAN :
    MaybeEmitStep(u, force_switch)

CallAddToBlacklist ==
  /\ UNCHANGED << consumerVars, ingestionVars, threadVars, probeVars >>
  /\ \E u \in PolicyUsers, t \in TrackIds \cup {None} :
       /\ user_blacklist' = add_to_blacklist(user_blacklist, u, t)
       /\ UNCHANGED << now, hr_history, latest_global_hr,
                       latest_global_hr_timestamp, telemetry_rows, hr_broadcasts, user_hr_versions,
                       user_latest_hr, latest_track, last_track_change,
                       active_users, recommendation_rows, track_broadcasts,
                       switch_calls, last_request >>

NextPolicy ==
  \/ Tick
  \/ CallHandleTelemetry
  \/ CallMaybeEmit
  \/ CallAddToBlacklist


\* ------------------------------------------------------------------------
\* api_backend.py: the handlers as the process wires them
\* ------------------------------------------------------------------------

\* The clock under the handlers.
TickHandlers == Advance(MaxHandlerTime)

\* What a request or stream entry may carry as "hr": an integer (kind
\* "int"), a number with a fractional part such as 70.5 ("float"), nothing
\* ("missing"), or text that is no number ("text").  value is the integer
\* part of a number.
MalformedSamples ==
  {[kind |-> k, value |-> 70, timestamp |-> 1] : k \in {"missing", "text"}}

RawSamples ==
  {[kind |-> k, value |-> s.hr, timestamp |-> s.timestamp] :
     s \in NextSamples, k \in {"int", "float"}}
    \cup MalformedSamples

\* A conversion that accepts any text.
int_parses_anything(hr_raw) == TRUE

\* Line 337: int(hr_raw) of a JSON value returns rather than raising; a
\* float is truncated, text raises ValueError.
int_parses(hr_raw) == hr_raw.kind \in {"int", "float"}

\* Line 314: int(hr_bytes) of a stream field returns rather than raising;
\* b"70.5" raises ValueError like any other text that is not an integer
\* literal.
int_parses_bytes(hr_raw) == hr_raw.kind = "int"

\* POST /telemetry with hr_raw as the payload's "hr".
telemetry_on(hr_raw) ==
  /\ UNCHANGED << consumerVars, ingestionVars, threadVars, probeVars >>
  /\ IF hr_raw.kind = "missing"
       THEN /\ last_request' = [op |-> "telemetry", status |-> 400,
                                error |-> "hr is required"]
            /\ UNCHANGED << now, hr_history, latest_global_hr,
                            latest_global_hr_timestamp, telemetry_rows,
                            hr_broadcasts, user_hr_versions,
                            user_latest_hr, latest_track, last_track_change,
                            active_users, user_blacklist, recommendation_rows,
                            track_broadcasts, switch_calls >>
     ELSE IF ~int_parses(hr_raw)
       THEN /\ last_request' = [op |-> "telemetry", status |-> 400,
                                error |-> "hr must be an integer"]
            /\ UNCHANGED << now, hr_history, latest_global_hr,
                            latest_global_hr_timestamp, telemetry_rows,
                            hr_broadcasts, user_hr_versions,
                            user_latest_hr, latest_track, last_track_change,
                            active_users, user_blacklist, recommendation_rows,
                            track_broadcasts, switch_calls >>
     ELSE /\ handle_telemetry(hr_raw.value, hr_raw.timestamp)
          /\ last_request' = [op |-> "telemetry", status |-> 200,
                              error |-> None]
          /\ UNCHANGED << now, active_users, user_blacklist >>

\* @app.route("/telemetry")
telemetry == \E hr_raw \in RawSamples : telemetry_on(hr_raw)

\* _redis_handler(data) with hr_raw as the entry's b"hr" field: every
\* exception is caught and printed.
_redis_handler_on(hr_raw) ==
  /\ UNCHANGED << consumerVars, ingestionVars, threadVars, probeVars >>
  /\ IF hr_raw.kind = "missing"
       THEN /\ last_request' = [op |-> "_redis_handler", status |-> 0,
                                error |-> None]
            /\ UNCHANGED << now, hr_history, latest_global_hr,
                            latest_global_hr_timestamp, telemetry_rows,
                            hr_broadcasts, user_hr_versions,
                            user_latest_hr, latest_track, last_track_change,
                            active_users, user_blacklist, recommendation_rows,
                            track_broadcasts, switch_calls >>
     ELSE IF ~int_parses_bytes(hr_raw)
       THEN /\ last_request' = [op |-> "_redis_handler", status |-> 0,
                                error |-> "ValueError"]
            /\ UNCHANGED << now, hr_history, latest_global_hr,
                            latest_global_hr_timestamp, telemetry_rows,
                            hr_broadcasts, user_hr_versions,
                            user_latest_hr, latest_track, last_track_change,
                            active_users, user_blacklist, recommendation_rows,
                            track_broadcasts, switch_calls >>
     ELSE /\ handle_telemetry(hr_raw.value, hr_raw.timestamp)
          /\ last_request' = [op |-> "_redis_handler", status |-> 0,
                              error |-> None]
          /\ UNCHANGED << now, active_users, user_blacklist >>

\* POST /telemetry with whatever timestamp the client puts in the payload
\* (line 341): later than, equal to or earlier than the one before.
StampedSamples ==
  {[kind |-> "int", value |-> hr, timestamp |-> ts] :
     hr \in HRValues, ts \in Stamps}

telemetry_stamped == \E hr_raw \in StampedSamples : telemetry_on(hr_raw)

\* The handler the stream consumer calls for each entry.
_redis_handler == \E hr_raw \in RawSamples : _redis_handler_on(hr_raw)

\* @app.route("/recommendation")
recommendation ==
  /\ UNCHANGED << consumerVars, ingestionVars, threadVars, probeVars >>
  /\ \E u \in Users :
       LET profile == get_user_profile(u)
           S       == _ensure_user_hr(Session, latest_global_hr,
                                      latest_global_hr_timestamp, u)
           track   == recommend(profile, S.hr_history[u], latest_track[u],
                                get_blacklist(user_blacklist, u))
       IN  /\ Store(S)
           /\ last_request' =
                [op |-> "recommendation",
                 status |-> IF track.id = None THEN 404 ELSE 200,
                 error |-> None]
           /\ UNCHANGED << now, latest_global_hr, latest_global_hr_timestamp, telemetry_rows, hr_broadcasts,
                           active_users, user_blacklist >>

\* feedback_service.py:24: the parameters FeedbackLogger.log accepts.
FeedbackLogger_log_params == {"event_type", "track_id", "metadata"}

\* api_backend.py:375: the keyword arguments feedback() passes to it.
feedback_log_kwargs == {"event_type", "track_id", "metadata", "user_id"}

\* A call with a keyword the callee does not accept raises TypeError.
log_raises == ~(feedback_log_kwargs \subseteq FeedbackLogger_log_params)

\* What a feedback request may carry.
EventTypes == {"dislike", "like", None}

\* feedback() with lines 386 and 387 exchanged: the forced recommendation
\* is computed before the dislike reaches the blacklist.
feedback_after_log_recommend_first(u, event_type, track_id) ==
  IF event_type = "dislike"
    THEN /\ user_blacklist' = add_to_blacklist(user_blacklist, u, track_id)
         /\ Store(maybe_emit_recommendation(
                    Session, latest_global_hr, latest_global_hr_timestamp,
                    user_blacklist, get_user_profile(u), TRUE, now))
         /\ last_request' =
              [op |-> "feedback", status |-> 200, error |-> None,
                           user_id |-> u,
               track |-> maybe_emit_returns(
                           Session, latest_global_hr,
                           latest_global_hr_timestamp, user_blacklist,
                           get_user_profile(u))]
         /\ UNCHANGED << now, latest_global_hr, latest_global_hr_timestamp,
                         telemetry_rows, hr_broadcasts, active_users >>
  ELSE /\ last_request' = [op |-> "feedback", status |-> 200, error |-> None,
                           user_id |-> u,
                           track |-> None]
       /\ UNCHANGED << now, hr_history, latest_global_hr,
                       latest_global_hr_timestamp, telemetry_rows,
                       hr_broadcasts, user_hr_versions,
                       user_latest_hr, latest_track, last_track_change,
                       active_users, user_blacklist, recommendation_rows,
                       track_broadcasts, switch_calls >>

\* Lines 376-389 of feedback(): what follows the call of the logger.  The
\* response carries the track maybe_emit_recommendation returned, if any.
feedback_after_log(u, event_type, track_id) ==
  IF event_type = "dislike"
    THEN LET blacklist == add_to_blacklist(user_blacklist, u, track_id)
         IN  /\ user_blacklist' = blacklist
             /\ Store(maybe_emit_recommendation(
                        Session, latest_global_hr, latest_global_hr_timestamp,
                        blacklist, get_user_profile(u), TRUE, now))
             /\ last_request' =
                  [op |-> "feedback", status |-> 200, error |-> None,
                           user_id |-> u,
                   track |-> maybe_emit_returns(
                               Session, latest_global_hr,
                               latest_global_hr_timestamp, blacklist,
                               get_user_profile(u))]
             /\ UNCHANGED << now, latest_global_hr,
                             latest_global_hr_timestamp, telemetry_rows,
                             hr_broadcasts, active_users >>
  ELSE /\ last_request' = [op |-> "feedback", status |-> 200, error |-> None,
                           user_id |-> u,
                           track |-> None]
       /\ UNCHANGED << now, hr_history, latest_global_hr,
                       latest_global_hr_timestamp, telemetry_rows,
                       hr_broadcasts, user_hr_versions,
                       user_latest_hr, latest_track, last_track_change,
                       active_users, user_blacklist, recommendation_rows,
                       track_broadcasts, switch_calls >>

\* @app.route("/feedback") for the request of user u.
FeedbackStep(u, event_type, track_id) ==
  /\ UNCHANGED << consumerVars, ingestionVars, threadVars, probeVars >>
  /\ IF event_type = None
       THEN /\ last_request' = [op |-> "feedback", status |-> 400,
                                error |-> "event_type is required"]
            /\ UNCHANGED << now, hr_history, latest_global_hr,
                            latest_global_hr_timestamp, telemetry_rows, hr_broadcasts, user_hr_versions,
                            user_latest_hr, latest_track, last_track_change,
                            active_users, user_blacklist, recommendation_rows,
                            track_broadcasts, switch_calls >>
     ELSE IF log_raises
       THEN /\ last_request' = [op |-> "feedback", status |-> 500,
                                error |-> "TypeError"]
            /\ UNCHANGED << now, hr_history, latest_global_hr,
                            latest_global_hr_timestamp, telemetry_rows, hr_broadcasts, user_hr_versions,
                            user_latest_hr, latest_track, last_track_change,
                            active_users, user_blacklist, recommendation_rows,
                            track_broadcasts, switch_calls >>
     ELSE feedback_after_log(u, event_type, track_id)

feedback ==
  \E u \in Users, event_type \in EventTypes, track_id \in TrackIds \cup {None} :
    FeedbackStep(u, event_type, track_id)

\* @socketio.on("connect"): active_users.add(user_id)
send_last_value ==
  /\ UNCHANGED << consumerVars, ingestionVars, threadVars, probeVars >>
  /\ \E u \in Users :
       /\ active_users' = active_users \cup {u}
       /\ UNCHANGED << now, hr_history, latest_global_hr,
                       latest_global_hr_timestamp, telemetry_rows, hr_broadcasts, user_hr_versions,
                       user_latest_hr, latest_track, last_track_change,
                       user_blacklist, recommendation_rows, track_broadcasts,
                       switch_calls, last_request >>

\* @socketio.on("disconnect"): active_users.discard(user_id)
handle_disconnect ==
  /\ UNCHANGED << consumerVars, ingestionVars, threadVars, probeVars >>
  /\ \E u \in Users :
       /\ active_users' = active_users \ {u}
       /\ UNCHANGED << now, hr_history, latest_global_hr,
                       latest_global_hr_timestamp, telemetry_rows, hr_broadcasts, user_hr_versions,
                       user_latest_hr, latest_track, last_track_change,
                       user_blacklist, recommendation_rows, track_broadcasts,
                       switch_calls, last_request >>

\* The blacklist table and the handlers that read or write it, with a
\* logger that accepts the call of line 375: feedback() from line 376 on.
\* The requests arrive within one second of the clock.
FeedbackLogged(u, event_type, track_id) ==
  /\ UNCHANGED << consumerVars, ingestionVars, threadVars, probeVars >>
  /\ feedback_after_log(u, event_type, track_id)

\* The track ids the feedback requests of these runs carry.
FeedbackTrackIds == {"t1", "t2", None}

feedback_logged ==
  \E u \in Users, event_type \in EventTypes \ {None},
     track_id \in FeedbackTrackIds :
    FeedbackLogged(u, event_type, track_id)

NextBlacklist ==
  \/ telemetry
  \/ recommendation
  \/ feedback_logged

Next ==
  \/ TickHandlers
  \/ telemetry
  \/ _redis_handler
  \/ recommendation
  \/ feedback
  \/ send_last_value
  \/ handle_disconnect

\* ------------------------------------------------------------------------
\* redis_consumer.py: RedisStreamConsumer over a Redis stream
\* ------------------------------------------------------------------------

\* Entries the producer adds to the stream in a run.
MaxEntries == 3

\* Deaths of the backend process in a run.
MaxCrashes == 2

\* xreadgroup(count=10)
ReadCount == 10

EntryIds == 1..MaxEntries

\* consumer-{int(time.time())}: one name per second in which a consumer is
\* constructed.
ConsumerNames == {"consumer-1", "consumer-2"}

\* XREADGROUP GROUP g c STREAMS key ">": the entries never delivered to any
\* consumer of the group, oldest first, at most `count` of them.
never_delivered(entries, last_id, count) ==
  LET first == last_id + 1
      last  == Min2(Len(entries), last_id + count)
  IN  [i \in 1..Max2(last - first + 1, 0) |-> first + i - 1]

\* The iteration with xack outside the try block's protection: reached
\* whatever the handler did.
after_handler_always_xack(outcome) == "xack"

\* Lines 63-68: where the iteration over one entry goes once the handler
\* has returned or raised; a raise leaves the try block before xack.
after_handler(outcome) == IF outcome = "returned" THEN "xack" ELSE "next"

\* The for loop moves to the next entry of the read, or back to the while.
next_entry(rest) == IF rest = << >> THEN "read" ELSE "handler"

InitConsumer ==
  /\ stream = << >>
  /\ group_created = FALSE
  /\ last_delivered = 0
  /\ pending = {}
  /\ consumer_name = None
  /\ consumer_pc = "init"
  /\ messages = << >>
  /\ stop_flag = FALSE
  /\ handled = [e \in EntryIds |-> "no"]
  /\ processed = {}
  /\ acked = {}
  /\ crashes = 0

\* XADD by the ingestion worker (ingestion_service.py:114).
xadd ==
  /\ Len(stream) < MaxEntries
  /\ stream' = Append(stream, Len(stream) + 1)
  /\ UNCHANGED << group_created, last_delivered, pending, consumer_name,
                  consumer_pc, messages, stop_flag, handled, processed, acked,
     crashes >>
  /\ UNCHANGED << backendVars, ingestionVars, threadVars, probeVars >>

\* What XGROUP CREATE key group 0-0 MKSTREAM can answer: OK when the
\* group is absent, a BUSYGROUP error when it exists, and at any time
\* another error (the key holds another type, the server cannot be
\* reached).
xgroup_create_replies(exists) ==
  {IF exists THEN "BUSYGROUP" ELSE "OK", "error"}

\* A group created at "$", the end of the stream.
_ensure_group_at_end(reply) ==
  /\ group_created' = (group_created \/ reply = "OK")
  /\ last_delivered' = IF reply = "OK" THEN Len(stream) ELSE last_delivered
  /\ pending' = IF reply = "OK" THEN {} ELSE pending

\* _ensure_group on the group in Redis: a group that is created starts
\* at 0-0 with nothing pending; BUSYGROUP is swallowed, which leaves an
\* existing group as it is.
_ensure_group(reply) ==
  /\ group_created' = (group_created \/ reply = "OK")
  /\ last_delivered' = IF reply = "OK" THEN 0 ELSE last_delivered
  /\ pending' = IF reply = "OK" THEN {} ELSE pending

\* Lines 41-44: every error but BUSYGROUP leaves _ensure_group, and then
\* start(), as an exception.
_ensure_group_raises(reply) == reply \notin {"OK", "BUSYGROUP"}

\* A backend process comes up (api_backend.py:583-589): __init__ and
\* start().  When start() raises, line 589 ends the process before a
\* thread is started.
start ==
  /\ consumer_pc \in {"init", "down", "stopped"}
  /\ \E name \in ConsumerNames : consumer_name' = name
  /\ \E reply \in xgroup_create_replies(group_created) :
       /\ _ensure_group(reply)
       /\ consumer_pc' = IF _ensure_group_raises(reply) THEN "down"
                         ELSE "read"
  /\ stop_flag' = FALSE
  /\ messages' = << >>
  /\ UNCHANGED << stream, handled, processed, acked, crashes >>
  /\ UNCHANGED << backendVars, ingestionVars, threadVars, probeVars >>

\* stop(): sets the flag; join(timeout=1) does not wait any longer.
stop ==
  /\ consumer_pc \in {"read", "xreadgroup", "backoff", "handler", "xack"}
  /\ ~stop_flag
  /\ stop_flag' = TRUE
  /\ UNCHANGED << stream, group_created, last_delivered, pending,
                  consumer_name, consumer_pc, messages, handled, processed, acked,
                  crashes >>
  /\ UNCHANGED << backendVars, ingestionVars, threadVars, probeVars >>

\* A while test that does not look at the event.
_stop_is_set_never(flag) == FALSE

\* self._stop.is_set() at line 47.
_stop_is_set(flag) == flag

\* Line 47 with the flag set: the thread returns.
loop_exit ==
  /\ consumer_pc = "read"
  /\ _stop_is_set(stop_flag)
  /\ consumer_pc' = "stopped"
  /\ UNCHANGED << stream, group_created, last_delivered, pending,
                  consumer_name, messages, stop_flag, handled, processed, acked,
                  crashes >>
  /\ UNCHANGED << backendVars, ingestionVars, threadVars, probeVars >>

\* Lines 47-55 with the flag clear: the thread calls xreadgroup, which
\* blocks for up to the poll timeout.
_loop ==
  /\ consumer_pc = "read"
  /\ ~_stop_is_set(stop_flag)
  /\ consumer_pc' = "xreadgroup"
  /\ UNCHANGED << stream, group_created, last_delivered, pending,
                  consumer_name, messages, stop_flag, handled, processed, acked,
                  crashes >>
  /\ UNCHANGED << backendVars, ingestionVars, threadVars, probeVars >>

\* Lines 49-55, 61: the read returns.  The entries it returns enter the
\* pending list under this consumer's name.
xreadgroup ==
  /\ consumer_pc = "xreadgroup"
  /\ LET items == never_delivered(stream, last_delivered, ReadCount)
     IN  /\ messages' = items
         /\ last_delivered' = last_delivered + Len(items)
         /\ pending' =
              pending \cup {[id |-> items[i], consumer |-> consumer_name] :
                              i \in DOMAIN items}
         /\ consumer_pc' = next_entry(items)
  /\ UNCHANGED << stream, group_created, consumer_name, stop_flag, handled, processed,
                  acked, crashes >>
  /\ UNCHANGED << backendVars, ingestionVars, threadVars, probeVars >>

\* Lines 56-57: a read that raises.
xreadgroup_raises ==
  /\ consumer_pc = "xreadgroup"
  /\ consumer_pc' = "backoff"
  /\ UNCHANGED << stream, group_created, last_delivered, pending,
                  consumer_name, messages, stop_flag, handled, processed, acked,
                  crashes >>
  /\ UNCHANGED << backendVars, ingestionVars, threadVars, probeVars >>

\* Lines 58-59: time.sleep(1); continue.
backoff ==
  /\ consumer_pc = "backoff"
  /\ consumer_pc' = "read"
  /\ UNCHANGED << stream, group_created, last_delivered, pending,
                  consumer_name, messages, stop_flag, handled, processed, acked,
                  crashes >>
  /\ UNCHANGED << backendVars, ingestionVars, threadVars, probeVars >>

\* What the work a handler does for an entry (for _redis_handler:
\* handle_telemetry, api_backend.py:316) can come to: it returns, or it
\* raises, e.g. when the telemetry row cannot be written.
handle_telemetry_outcomes == {"returned", "raised"}

\* What self.handler(data) can do at line 65, given what the work inside
\* it did.  The class takes any callable: a handler may let the exception
\* out.  _redis_handler, the one the backend passes
\* (api_backend.py:583-588), catches every Exception and returns
\* (api_backend.py:309, 318-319).
handler_outcomes(inner) ==
  IF inner = "returned" THEN {"returned"} ELSE {"returned", "raised"}

\* A loop whose try block is around the for loops: a handler that raises
\* ends the handling of the read.
call_handler_error_ends_read ==
  /\ consumer_pc = "handler"
  /\ \E inner \in handle_telemetry_outcomes :
       \E outcome \in handler_outcomes(inner) :
         /\ handled' = [handled EXCEPT ![Head(messages)] = outcome]
         /\ processed' = IF inner = "returned"
                            THEN processed \cup {Head(messages)}
                          ELSE processed
         /\ IF outcome = "returned"
              THEN /\ consumer_pc' = "xack"
                   /\ messages' = messages
            ELSE /\ consumer_pc' = "read"
                 /\ messages' = << >>
  /\ UNCHANGED << stream, group_created, last_delivered, pending,
                  consumer_name, stop_flag, acked, crashes >>
  /\ UNCHANGED << backendVars, ingestionVars, threadVars, probeVars >>

\* Lines 63-65, 67-68: self.handler(data) on the first remaining entry.
call_handler ==
  /\ consumer_pc = "handler"
  /\ \E inner \in handle_telemetry_outcomes :
       \E outcome \in handler_outcomes(inner) :
         /\ handled' = [handled EXCEPT ![Head(messages)] = outcome]
         /\ processed' = IF inner = "returned"
                            THEN processed \cup {Head(messages)}
                          ELSE processed
         /\ IF after_handler(outcome) = "xack"
              THEN /\ consumer_pc' = "xack"
                   /\ messages' = messages
            ELSE /\ consumer_pc' = next_entry(Tail(messages))
                 /\ messages' = Tail(messages)
  /\ UNCHANGED << stream, group_created, last_delivered, pending,
                  consumer_name, stop_flag, acked, crashes >>
  /\ UNCHANGED << backendVars, ingestionVars, threadVars, probeVars >>

\* Lines 66-68: XACK of that entry, which may itself raise.
xack ==
  /\ consumer_pc = "xack"
  /\ \E outcome \in {"returned", "raised"} :
       IF outcome = "returned"
         THEN /\ acked' = acked \cup {Head(messages)}
              /\ pending' = {p \in pending : p.id # Head(messages)}
       ELSE UNCHANGED << acked, pending >>
  /\ messages' = Tail(messages)
  /\ consumer_pc' = next_entry(Tail(messages))
  /\ UNCHANGED << stream, group_created, last_delivered, consumer_name,
                  stop_flag, handled, processed, crashes >>
  /\ UNCHANGED << backendVars, ingestionVars, threadVars, probeVars >>

\* The backend process dies; what it held in memory is gone, the stream and
\* the group stay in Redis.
crash ==
  /\ consumer_pc \in {"read", "xreadgroup", "backoff", "handler", "xack"}
  /\ crashes < MaxCrashes
  /\ crashes' = crashes + 1
  /\ consumer_pc' = "down"
  /\ messages' = << >>
  /\ UNCHANGED << stream, group_created, last_delivered, pending,
                  consumer_name, stop_flag, handled, processed, acked >>
  /\ UNCHANGED << backendVars, ingestionVars, threadVars, probeVars >>

NextConsumer ==
  \/ xadd
  \/ start
  \/ stop
  \/ loop_exit
  \/ _loop
  \/ xreadgroup
  \/ xreadgroup_raises
  \/ backoff
  \/ call_handler
  \/ xack
  \/ crash

\* ------------------------------------------------------------------------
\* ingestion_service.py: telemetry queue, worker, archival buffer
\* ------------------------------------------------------------------------

\* Samples the strap delivers in a run.
MaxSamples == 3

\* STORAGE_BATCH_SIZE and STORAGE_FLUSH_SECONDS (ingestion_service.py:48-49)
\* are read from the environment; the model runs with small settings.
STORAGE_BATCH_SIZE == 2

STORAGE_FLUSH_SECONDS == 2

\* time.time() when the ingestion process starts, and where the model
\* stops the clock.  last_storage_flush starts at 0.0, the epoch.
ProcessStart == 10

MaxClock == 12

Threads == {"worker", "main"}

\* What the strap notifies: a frame too short to carry a rate, and a frame
\* with the rate in its second byte.
BleFrames == {<< 0 >>, << 0, 70 >>}

NoPayload == [n |-> 0, hr |-> 0, timestamp |-> 0]

\* A thread that is not inside _flush_storage_buffer.
NoFrame ==
  [pc |-> "idle", force |-> FALSE, batch |-> << >>, now |-> 0,
   success |-> FALSE]

\* The call _flush_storage_buffer(force) about to run its first line.
Call(force) == [NoFrame EXCEPT !.pc = "check", !.force = force]

\* telemetry_queue.pop(): the newest sample instead of the oldest.
pop(queue) ==
  [item |-> queue[Len(queue)], rest |-> SubSeq(queue, 1, Len(queue) - 1)]

\* telemetry_queue.popleft()
popleft(queue) == [item |-> Head(queue), rest |-> Tail(queue)]

\* The worker without its try block: any exception ends the thread.
on_worker_exception_uncaught(pc) == "dead"

\* A worker whose call of _buffer_storage_payload is outside the try
\* block: it is reached also when the forwarding raised.
on_worker_exception_then_buffer(pc) ==
  IF pc = "forward" THEN "buffer"
  ELSE IF pc \in {"buffer", "flushing"} THEN "loop"
  ELSE "dead"

\* Lines 112-127: where the worker goes when a statement at `pc` raises an
\* Exception: the try block of the loop body catches it, nothing catches
\* one raised by the flush after the loop.
on_worker_exception(pc) ==
  IF pc \in {"forward", "buffer", "flushing"} THEN "loop" ELSE "dead"

\* A flush that waits while either threshold is not reached.
below_either_threshold(buffer, t, last_flush) ==
  Len(buffer) < STORAGE_BATCH_SIZE \/ t - last_flush < STORAGE_FLUSH_SECONDS

\* Lines 79-81: the thresholds of a flush that is not forced.
below_thresholds(buffer, t, last_flush) ==
  Len(buffer) < STORAGE_BATCH_SIZE /\ t - last_flush < STORAGE_FLUSH_SECONDS

\* Lines 92-96 on the buffer: a batch whose upload reported failure goes
\* back in front of what has been appended since.
requeue(batch, buffer) == batch \o buffer

InitIngestion(with_redis, with_storage) ==
  /\ clock = ProcessStart
  /\ redis_client = with_redis
  /\ storage_enabled = with_storage
  /\ telemetry_queue = << >>
  /\ stop_event = FALSE
  /\ storage_buffer = << >>
  /\ last_storage_flush = 0
  /\ worker_pc = "loop"
  /\ payload = NoPayload
  /\ main_pc = "run_ble"
  /\ flush = [th \in Threads |-> NoFrame]
  /\ enqueued = << >>
  /\ dequeued = << >>
  /\ forwarded = << >>
  /\ buffered = << >>
  /\ uploaded = << >>
  /\ worker_failures = 0

\* The clock of the ingestion host moves on.
tick_clock ==
  /\ clock < MaxClock
  /\ clock' = clock + 1
  /\ UNCHANGED << redis_client, storage_enabled, telemetry_queue, stop_event,
                  storage_buffer, last_storage_flush, worker_pc, payload,
                  main_pc, flush, enqueued, dequeued, forwarded, buffered,
                  uploaded, worker_failures >>
  /\ UNCHANGED << backendVars, consumerVars, threadVars, probeVars >>

\* A queue made with deque(maxlen=1): an append to a full queue drops the
\* oldest sample.
enqueue_telemetry_bounded(queue, sample) ==
  IF Len(queue) >= 1 THEN Append(Tail(queue), sample)
  ELSE Append(queue, sample)

\* Lines 63, 99-100: telemetry_queue.append(payload) on a deque without
\* maxlen.
enqueue_telemetry(queue, sample) == Append(queue, sample)

\* hr_handler(_sender, data); notifications arrive while run_ble is
\* running.
hr_handler_on(data) ==
  /\ main_pc = "run_ble"
  /\ Len(enqueued) < MaxSamples
  /\ IF Len(data) < 2
       THEN UNCHANGED << telemetry_queue, enqueued >>
     ELSE LET sample == [n |-> Len(enqueued) + 1, hr |-> data[2],
                         timestamp |-> clock]
          IN  /\ telemetry_queue' = enqueue_telemetry(telemetry_queue, sample)
              /\ enqueued' = Append(enqueued, sample)
  /\ UNCHANGED << clock, redis_client, storage_enabled, stop_event,
                  storage_buffer, last_storage_flush, worker_pc, payload,
                  main_pc, flush, dequeued, forwarded, buffered, uploaded,
                  worker_failures >>
  /\ UNCHANGED << backendVars, consumerVars, threadVars, probeVars >>

hr_handler == \E data \in BleFrames : hr_handler_on(data)

\* Lines 105-110: the loop test, then popleft or the 50 ms wait.
worker_loop ==
  /\ worker_pc = "loop"
  /\ IF stop_event
       THEN /\ worker_pc' = "final_flush"
            /\ flush' = [flush EXCEPT !["worker"] = Call(TRUE)]
            /\ UNCHANGED << telemetry_queue, payload, dequeued >>
     ELSE IF telemetry_queue = << >>
       THEN UNCHANGED << worker_pc, flush, telemetry_queue, payload,
                         dequeued >>
     ELSE /\ payload' = popleft(telemetry_queue).item
          /\ telemetry_queue' = popleft(telemetry_queue).rest
          /\ dequeued' = Append(dequeued, popleft(telemetry_queue).item)
          /\ worker_pc' = "forward"
          /\ flush' = flush
  /\ UNCHANGED << clock, redis_client, storage_enabled, stop_event,
                  storage_buffer, last_storage_flush, main_pc, enqueued,
                  forwarded, buffered, uploaded, worker_failures >>
  /\ UNCHANGED << backendVars, consumerVars, threadVars, probeVars >>

\* Lines 112-122, 124-126: xadd to the stream, or the HTTP post.
worker_forward ==
  /\ worker_pc = "forward"
  /\ \E outcome \in {"sent", "raised"} :
       IF outcome = "sent"
         THEN /\ forwarded' =
                   Append(forwarded,
                          [sample |-> payload,
                           transport |-> IF redis_client THEN "stream"
                                         ELSE "http"])
              /\ worker_pc' = "buffer"
              /\ worker_failures' = worker_failures
       ELSE /\ worker_pc' = on_worker_exception(worker_pc)
            /\ worker_failures' = worker_failures + 1
            /\ forwarded' = forwarded
  /\ UNCHANGED << clock, redis_client, storage_enabled, telemetry_queue,
                  stop_event, storage_buffer, last_storage_flush, payload,
                  main_pc, flush, enqueued, dequeued, buffered, uploaded >>
  /\ UNCHANGED << backendVars, consumerVars, threadVars, probeVars >>

\* Line 123 with lines 67-71: _buffer_storage_payload up to its call of
\* _flush_storage_buffer().
worker_buffer ==
  /\ worker_pc = "buffer"
  /\ IF ~storage_enabled
       THEN /\ worker_pc' = "loop"
            /\ UNCHANGED << storage_buffer, buffered, flush >>
     ELSE /\ storage_buffer' = Append(storage_buffer, payload)
          /\ buffered' = Append(buffered, payload)
          /\ flush' = [flush EXCEPT !["worker"] = Call(FALSE)]
          /\ worker_pc' = "flushing"
  /\ UNCHANGED << clock, redis_client, storage_enabled, telemetry_queue,
                  stop_event, last_storage_flush, payload, main_pc, enqueued,
                  dequeued, forwarded, uploaded, worker_failures >>
  /\ UNCHANGED << backendVars, consumerVars, threadVars, probeVars >>

\* _flush_storage_buffer of thread th leaves, by return or by an exception
\* that propagates to the caller: the worker is back in its loop (lines
\* 123-126) or at its end (line 127), the main thread at the end of main.
leave_flush(th, raised) ==
  /\ flush' = [flush EXCEPT ![th] = NoFrame]
  /\ IF th = "worker"
       THEN /\ worker_pc' =
                 IF raised THEN on_worker_exception(worker_pc)
                 ELSE IF worker_pc = "flushing" THEN "loop" ELSE "done"
            /\ worker_failures' =
                 IF raised THEN worker_failures + 1 ELSE worker_failures
            /\ main_pc' = main_pc
     ELSE /\ main_pc' = "exit"
          /\ UNCHANGED << worker_pc, worker_failures >>

\* Lines 76-82: the guards, time.time(), and the copy of the buffer.
flush_check(th) ==
  /\ flush[th].pc = "check"
  /\ IF ~storage_enabled \/ storage_buffer = << >>
       THEN leave_flush(th, FALSE)
     ELSE IF ~flush[th].force
             /\ below_thresholds(storage_buffer, clock, last_storage_flush)
       THEN leave_flush(th, FALSE)
     ELSE /\ flush' = [flush EXCEPT ![th].pc = "clear",
                                    ![th].batch = storage_buffer,
                                    ![th].now = clock]
          /\ UNCHANGED << worker_pc, main_pc, worker_failures >>
  /\ UNCHANGED << clock, redis_client, storage_enabled, telemetry_queue,
                  stop_event, storage_buffer, last_storage_flush, payload,
                  enqueued, dequeued, forwarded, buffered, uploaded >>
  /\ UNCHANGED << backendVars, consumerVars, threadVars, probeVars >>

\* Line 83: storage_buffer = []
flush_clear(th) ==
  /\ flush[th].pc = "clear"
  /\ storage_buffer' = << >>
  /\ flush' = [flush EXCEPT ![th].pc = "upload"]
  /\ UNCHANGED << clock, redis_client, storage_enabled, telemetry_queue,
                  stop_event, last_storage_flush, worker_pc, payload,
                  main_pc, enqueued, dequeued, forwarded, buffered, uploaded,
                  worker_failures >>
  /\ UNCHANGED << backendVars, consumerVars, threadVars, probeVars >>

\* Lines 84-91 with StorageClient.upload_bytes: put_object stores the batch,
\* raises S3Error (caught there, False returned), or raises anything else
\* (not caught there nor in _flush_storage_buffer).
flush_upload(th) ==
  /\ flush[th].pc = "upload"
  /\ \E outcome \in {"stored", "S3Error", "raised"} :
       IF outcome = "raised"
         THEN /\ leave_flush(th, TRUE)
              /\ uploaded' = uploaded
       ELSE /\ flush' = [flush EXCEPT ![th].pc = "finish",
                                      ![th].success = (outcome = "stored")]
            /\ uploaded' = IF outcome = "stored"
                             THEN Append(uploaded, flush[th].batch)
                           ELSE uploaded
            /\ UNCHANGED << worker_pc, main_pc, worker_failures >>
  /\ UNCHANGED << clock, redis_client, storage_enabled, telemetry_queue,
                  stop_event, storage_buffer, last_storage_flush, payload,
                  enqueued, dequeued, forwarded, buffered >>
  /\ UNCHANGED << backendVars, consumerVars, threadVars, probeVars >>

\* Lines 92-96.
flush_finish(th) ==
  /\ flush[th].pc = "finish"
  /\ IF ~flush[th].success
       THEN /\ storage_buffer' = requeue(flush[th].batch, storage_buffer)
            /\ last_storage_flush' = last_storage_flush
     ELSE /\ last_storage_flush' = flush[th].now
          /\ storage_buffer' = storage_buffer
  /\ leave_flush(th, FALSE)
  /\ UNCHANGED << clock, redis_client, storage_enabled, telemetry_queue,
                  stop_event, payload, enqueued, dequeued, forwarded,
                  buffered, uploaded >>
  /\ UNCHANGED << backendVars, consumerVars, threadVars, probeVars >>

\* One step of a thread inside _flush_storage_buffer.
flush_step ==
  \E th \in Threads :
    \/ flush_check(th)
    \/ flush_clear(th)
    \/ flush_upload(th)
    \/ flush_finish(th)

\* Lines 156-159: run_ble is over; finally: stop_event.set().
main_stop ==
  /\ main_pc = "run_ble"
  /\ stop_event' = TRUE
  /\ main_pc' = "join"
  /\ UNCHANGED << clock, redis_client, storage_enabled, telemetry_queue,
                  storage_buffer, last_storage_flush, worker_pc, payload,
                  flush, enqueued, dequeued, forwarded, buffered, uploaded,
                  worker_failures >>
  /\ UNCHANGED << backendVars, consumerVars, threadVars, probeVars >>

\* Lines 160-161: worker.join(timeout=1) returns, the worker finished or
\* not, and main calls _flush_storage_buffer(force=True).
main_join ==
  /\ main_pc = "join"
  /\ main_pc' = "flush"
  /\ flush' = [flush EXCEPT !["main"] = Call(TRUE)]
  /\ UNCHANGED << clock, redis_client, storage_enabled, telemetry_queue,
                  stop_event, storage_buffer, last_storage_flush, worker_pc,
                  payload, enqueued, dequeued, forwarded, buffered, uploaded,
                  worker_failures >>
  /\ UNCHANGED << backendVars, consumerVars, threadVars, probeVars >>

\* main returns and the process exits; the worker is a daemon thread
\* (line 153) and ends with it wherever it stands.
main_exit ==
  /\ main_pc = "exit"
  /\ main_pc' = "exited"
  /\ worker_pc' = IF worker_pc \in {"done", "dead"} THEN worker_pc
                  ELSE "killed"
  /\ flush' = [flush EXCEPT !["worker"] = NoFrame]
  /\ UNCHANGED << clock, redis_client, storage_enabled, telemetry_queue,
                  stop_event, storage_buffer, last_storage_flush, payload,
                  enqueued, dequeued, forwarded, buffered, uploaded,
                  worker_failures >>
  /\ UNCHANGED << backendVars, consumerVars, threadVars, probeVars >>

NextIngestion ==
  \/ tick_clock
  \/ hr_handler
  \/ worker_loop
  \/ worker_forward
  \/ worker_buffer
  \/ flush_step
  \/ main_stop
  \/ main_join
  \/ main_exit

\* ------------------------------------------------------------------------
\* api_backend.py under its threads: the consumer thread started at line
\* 589 and the request threads of the server of line 590 (async_mode
\* "threading", line 29) run handle_telemetry on the same module globals;
\* the module takes no lock.  A thread may be preempted between reading a
\* user's session (lines 265-284) and writing it (lines 286-290).
\* ------------------------------------------------------------------------

HandlerThreads == {"redis-consumer", "http"}

\* A thread outside handle_telemetry.
NoEmit ==
  [pc |-> "idle", todo |-> << >>, track |-> None, current |-> None,
   switch |-> FALSE, t |-> 0]

InitThreads == calls = [th \in HandlerThreads |-> NoEmit]

\* Line 302: the loop moves to the next user, or handle_telemetry returns.
next_user(frame) ==
  IF Tail(frame.todo) = << >> THEN NoEmit
  ELSE [NoEmit EXCEPT !.pc = "emit", !.todo = Tail(frame.todo)]

\* Lines 296-301 on thread th: a sample arrives by the stream or by POST
\* /telemetry.
thread_handle_telemetry(th) ==
  /\ calls[th].pc = "idle"
  /\ \E s \in NextSamples :
       /\ latest_global_hr' = Just(s.hr)
       /\ latest_global_hr_timestamp' = Just(s.timestamp)
       /\ telemetry_rows' = [timestamp |-> s.timestamp, hr |-> s.hr]
       /\ hr_broadcasts' = [hr |-> s.hr, timestamp |-> s.timestamp]
  /\ calls' = [calls EXCEPT ![th] =
                 [NoEmit EXCEPT !.pc = "emit",
                                !.todo = SeqOfSet(target_users(active_users))]]
  /\ UNCHANGED << now, hr_history, user_hr_versions, user_latest_hr,
                  latest_track, last_track_change, active_users,
                  user_blacklist, recommendation_rows, track_broadcasts,
                  switch_calls, last_request >>
  /\ UNCHANGED << consumerVars, ingestionVars, probeVars >>

\* Lines 265-284 on thread th for the next user of its loop: the session is
\* read, recommend is called, the decision is taken.
thread_decide(th) ==
  /\ calls[th].pc = "emit"
  /\ LET user_id == Head(calls[th].todo)
         profile == get_user_profile(user_id)
         S       == _ensure_user_hr(Session, latest_global_hr,
                                    latest_global_hr_timestamp, user_id)
         current == S.latest_track[user_id]
         track   == recommend(profile, S.hr_history[user_id], current,
                              get_blacklist(user_blacklist, user_id))
     IN  /\ Store(S)
         /\ calls' = [calls EXCEPT ![th] =
                        IF track.id = None THEN next_user(@)
                        ELSE [@ EXCEPT
                                !.pc = "act",
                                !.track = track.id,
                                !.current = current,
                                !.t = now,
                                !.switch =
                                   should_switch(FALSE, current, track.id,
                                                 S.last_track_change[user_id],
                                                 now)]]
  /\ UNCHANGED << now, latest_global_hr, latest_global_hr_timestamp, telemetry_rows, hr_broadcasts,
                  active_users, user_blacklist, last_request >>
  /\ UNCHANGED << consumerVars, ingestionVars, probeVars >>

\* Lines 286-292 on thread th: what was decided is written and emitted.
thread_act(th) ==
  /\ calls[th].pc = "act"
  /\ LET frame   == calls[th]
         user_id == Head(frame.todo)
     IN  /\ IF frame.switch
              THEN Store(switch_track(Session, user_id, frame.track, frame.t,
                                      FALSE, frame.current,
                                      get_blacklist(user_blacklist, user_id)))
            ELSE Store(Session)
         /\ calls' = [calls EXCEPT ![th] = next_user(frame)]
  /\ UNCHANGED << now, latest_global_hr, latest_global_hr_timestamp, telemetry_rows, hr_broadcasts,
                  active_users, user_blacklist, last_request >>
  /\ UNCHANGED << consumerVars, ingestionVars, probeVars >>

thread_step ==
  \E th \in HandlerThreads :
    \/ thread_handle_telemetry(th)
    \/ thread_decide(th)
    \/ thread_act(th)

NextThreads ==
  \/ TickHandlers
  \/ thread_step

\* ------------------------------------------------------------------------
\* recommender_service.py: RecommenderService called directly, with one
\* user: observe_hr and recommend over the catalogs load_tracks can return
\* ------------------------------------------------------------------------

\* observe_hr calls in a run.
MaxObserved == 3

\* A file with one row whose energy column reads 6: _float (lines 29-35)
\* returns whatever float() accepts.
CatalogOutOfRange ==
  << [id |-> "t1", energy |-> 6 * SCALE, danceability |-> 500, tempo |-> 120,
      valence |-> 500, artist_set |-> {"a"}] >>

\* A file whose rows differ in energy only (t1 and t2), or in nothing but
\* the id (t2 and t3).
CatalogEnergyPair ==
  << [id |-> "t1", energy |-> 100, danceability |-> 500, tempo |-> 120,
      valence |-> 500, artist_set |-> {"a"}],
     [id |-> "t2", energy |-> 700, danceability |-> 500, tempo |-> 120,
      valence |-> 500, artist_set |-> {"a"}],
     [id |-> "t3", energy |-> 700, danceability |-> 500, tempo |-> 120,
      valence |-> 500, artist_set |-> {"a"}] >>

\* No data file (lines 41-43), the catalog above, the catalog of rows
\* with features between 0 and 1, and the catalog of near-identical rows.
Catalogs == {<< >>, Catalog, CatalogOutOfRange, CatalogEnergyPair}

\* Heart rates below the resting rate, between it and the maximum (two of
\* them TREND_THRESHOLD apart), above the maximum.
ProbeHRValues == {40, 70, 75, 200}

\* The user the service is called for.
ProbeUser == "u1"

\* Artist names of the sets _artist_similarity is called with.
ProbeArtists == {"a", "b", "c"}

\* An index expression self.hr_history[user_id], which makes an entry.
keys_after_index(keys, user_id) == keys \cup {user_id}

\* Lines 94 and 117: self.hr_history.get(user_id) leaves the keys of the
\* defaultdict as they are.
keys_after_get(keys, user_id) == keys

\* Profiles: the defaults, a user's own, and two whose maximum is not above
\* the resting rate.
Profiles ==
  {[rest_hr |-> DEFAULT_REST_HR, max_hr |-> DEFAULT_MAX_HR],
   [rest_hr |-> 50, max_hr |-> 180],
   [rest_hr |-> 60, max_hr |-> 60],
   [rest_hr |-> 70, max_hr |-> 60]}

\* The arguments of a recommend call.
RecommendArgs ==
  [user_profile : Profiles,
   latest_track : {NoTrack, Catalog[3]},
   blacklist : {{}, {"t1"}, TrackIds},
   exclude_track_ids : {{}, {"t2", "t3"}},
   preference_vector : {<< >>, << 500, 500, 600, 500 >>}]

\* The histories the window can hold.
ProbeHistories == UNION {[1..n -> ProbeHRValues] : n \in 0..HistoryWindow}

\* recommend, tabulated once over the catalogs, histories and arguments.
probe_recommend_table ==
  [tracks \in Catalogs, history \in ProbeHistories, args \in RecommendArgs |->
     recommend_in(tracks, args.user_profile, history, args.latest_track,
                  args.blacklist, args.preference_vector,
                  args.exclude_track_ids)] @@ << >>

\* The service of the backend process, not called by this specification.
ProbeIdle ==
  probe = [tracks |-> Catalog, users |-> {}, hr_history |-> << >>,
           observed |-> << >>, call |-> Nothing, helper |-> Nothing]

\* RecommenderService(data_path) over one of the catalogs.
InitProbe ==
  \E tracks \in Catalogs :
    probe = [tracks |-> tracks, users |-> {}, hr_history |-> << >>,
             observed |-> << >>, call |-> Nothing, helper |-> Nothing]

\* observe_hr(user_id, hr): self.hr_history[user_id].append(hr), which
\* makes the user's entry on the first call.  `observed` keeps every value
\* passed; the records of the latest calls are dropped with the history
\* they saw.
probe_observe_hr ==
  /\ Len(probe.observed) < MaxObserved
  /\ \E hr \in ProbeHRValues :
       probe' = [probe EXCEPT
                   !.users = @ \cup {ProbeUser},
                   !.hr_history = observe_append(@, hr),
                   !.observed = Append(@, hr),
                   !.call = Nothing,
                   !.helper = Nothing]
  /\ UNCHANGED << backendVars, consumerVars, ingestionVars, threadVars >>

\* recommend(**args): the arguments and the value returned.  recommend
\* writes nothing but what the lookup of the history may do to the
\* dictionary, so one call is recorded for each history.
probe_recommend ==
  /\ probe.call = Nothing
  /\ probe.helper = Nothing
  /\ \E args \in RecommendArgs :
       probe' = [probe EXCEPT
                   !.users = keys_after_get(@, ProbeUser),
                   !.call =
                      Just([args |-> args,
                            returned |->
                              probe_recommend_table[probe.tracks,
                                                    probe.hr_history, args]])]
  /\ UNCHANGED << backendVars, consumerVars, ingestionVars, threadVars >>

\* _trend(user_id): the value returned, in SCALE units.
probe_trend ==
  /\ probe.call = Nothing
  /\ probe.helper = Nothing
  /\ probe' = [probe EXCEPT
                 !.users = keys_after_get(@, ProbeUser),
                 !.helper = Just([method |-> "_trend",
                                  returned |-> _trend(probe.hr_history)])]
  /\ UNCHANGED << backendVars, consumerVars, ingestionVars, threadVars >>

\* _artist_similarity(previous, current): the arguments and the value
\* returned, in SCALE units.
probe_artist_similarity ==
  /\ probe.call = Nothing
  /\ probe.helper = Nothing
  /\ \E previous \in SUBSET ProbeArtists, current \in SUBSET ProbeArtists :
       probe' = [probe EXCEPT
                   !.helper =
                      Just([method |-> "_artist_similarity",
                            previous |-> previous, current |-> current,
                            returned |->
                              _artist_similarity(previous, current)])]
  /\ UNCHANGED << backendVars, consumerVars, ingestionVars, threadVars >>

NextRecommender ==
  \/ probe_observe_hr
  \/ probe_recommend
  \/ probe_trend
  \/ probe_artist_similarity

\* ------------------------------------------------------------------------
\* Specifications: one per process, the other two standing still
\* ------------------------------------------------------------------------

\* The ingestion process as the defaults configure it: no Redis URL,
\* storage disabled.
IngestionIdle == InitIngestion(FALSE, FALSE)

\* All three processes just started.
Init ==
  /\ InitBackend
  /\ InitConsumer
  /\ IngestionIdle
  /\ InitThreads
  /\ ProbeIdle

\* The same under each configuration of the ingestion's transport and
\* storage.
InitConfigured ==
  /\ InitBackend
  /\ InitConsumer
  /\ \E with_redis \in BOOLEAN, with_storage \in BOOLEAN :
       InitIngestion(with_redis, with_storage)
  /\ InitThreads
  /\ ProbeIdle

\* The decision engine driven through its interface.
SpecPolicy == Init /\ [][NextPolicy]_vars

\* The backend's request handlers.
Spec == Init /\ [][Next]_vars

\* The stream and its consumer.
SpecConsumer == Init /\ [][NextConsumer]_vars

\* The same where the consumer thread keeps running while it can, a read
\* that is tried again and again succeeds in the end, and a backend that is
\* down is brought up again, with a start() that does not raise.
SpecConsumerLive ==
  /\ SpecConsumer
  /\ WF_vars(start /\ consumer_pc' = "read")
  /\ SF_vars(_loop)
  /\ SF_vars(xreadgroup)
  /\ WF_vars(backoff)
  /\ WF_vars(call_handler)
  /\ SF_vars(xack)
  /\ WF_vars(loop_exit)

\* The ingestion process.
SpecIngestion == InitConfigured /\ [][NextIngestion]_vars

\* The blacklist table under the handlers, the logger accepting its call.
SpecBlacklist == Init /\ [][NextBlacklist]_vars

\* The backend's handlers under samples with any timestamp.
NextStamped ==
  \/ telemetry_stamped
  \/ recommendation
  \/ send_last_value
  \/ handle_disconnect

SpecStamped == Init /\ [][NextStamped]_vars

\* The backend's handle_telemetry on two threads.
SpecThreads == Init /\ [][NextThreads]_vars

\* The recommender service on its own, over each catalog.
InitRecommender ==
  /\ InitBackend
  /\ InitConsumer
  /\ IngestionIdle
  /\ InitThreads
  /\ InitProbe

SpecRecommender == InitRecommender /\ [][NextRecommender]_vars

\* ------------------------------------------------------------------------
\* Properties
\* ------------------------------------------------------------------------

IsPrefix(a, b) == Len(a) <= Len(b) /\ SubSeq(b, 1, Len(a)) = a

\* C1: between a user's switch event and the one before it at least
\* MIN_TRACK_DURATION seconds have passed, unless the later event was emitted
\* by a call with force_switch = TRUE; the time is counted from the previous
\* event whether that one was forced or not.
C1_DwellBetweenSwitches ==
  \A u \in Users :
    LET call == switch_calls[u]
    IN  (call.gap # Nothing /\ ~call.force_switch)
          => Val(call.gap) >= MIN_TRACK_DURATION

\* A second event that was not forced, emitted as soon as the dwell allows.
C1_SecondSwitchAfterDwell ==
  \E u \in Users :
    /\ ~switch_calls[u].force_switch
    /\ switch_calls[u].gap = Just(MIN_TRACK_DURATION)
    /\ switch_calls[u].replaced # recommendation_rows[u].track_id

\* C2: for a user with a current track, a call of maybe_emit_recommendation
\* in which recommend returns a candidate replaces the track, restarts the
\* dwell timer and emits an event exactly when the candidate differs from
\* the current track and (force_switch or the dwell time has passed); in
\* every other case track, timer and events stay as they are.
C2_PlayingSwitchesIff ==
  [][\A u \in PolicyUsers, force_switch \in BOOLEAN :
       LET current   == latest_track[u]
           S         == _ensure_user_hr(Session, latest_global_hr,
                                        latest_global_hr_timestamp, u)
           candidate == recommend(get_user_profile(u), S.hr_history[u],
                                  current, get_blacklist(user_blacklist, u))
           permitted == /\ candidate.id # current
                        /\ \/ force_switch
                           \/ now - Val(last_track_change[u])
                                >= MIN_TRACK_DURATION
       IN  (/\ current # None
            /\ candidate.id # None
            /\ MaybeEmitStep(u, force_switch))
             => IF permitted
                  THEN /\ latest_track'[u] = candidate.id
                       /\ last_track_change'[u] = Just(now)
                       /\ track_broadcasts'[u].track_id = candidate.id
                ELSE /\ latest_track'[u] = current
                     /\ last_track_change'[u] = last_track_change[u]
                     /\ recommendation_rows'[u] = recommendation_rows[u]
                     /\ switch_calls'[u] = switch_calls[u]]_vars

\* C3: a /feedback request with event_type "dislike" on the user's current
\* track replaces that track and emits a switch event whenever recommend,
\* with the disliked track blacklisted, returns a track: however short the
\* time since the last switch.
C3_DislikeForcesSwitch ==
  [][\A u \in Users :
       LET current == latest_track[u]
           S       == _ensure_user_hr(Session, latest_global_hr,
                                      latest_global_hr_timestamp, u)
           track   == recommend(get_user_profile(u), S.hr_history[u], current,
                                get_blacklist(
                                  add_to_blacklist(user_blacklist, u, current),
                                  u))
       IN  (/\ current # None
            /\ track.id # None
            /\ FeedbackStep(u, "dislike", current))
             => /\ latest_track'[u] = track.id
                /\ last_track_change'[u] = Just(now)
                /\ track_broadcasts'[u].track_id = track.id]_vars

\* C4: recommend, on the history, profile, current track and blacklist a
\* user has and with any set of excluded ids, returns no track of the
\* blacklist or of the excluded ids; and no switch event carries a track
\* that was in the user's blacklist when the event was emitted.
C4_NeverBlacklisted ==
  /\ \A u \in Users, excluded \in SUBSET TrackIds :
       recommend_in(Catalog, get_user_profile(u), hr_history[u],
                    get_track(latest_track[u]), user_blacklist[u], << >>,
                    excluded).id
         \notin (user_blacklist[u] \cup excluded)
  /\ \A u \in Users :
       recommendation_rows[u].track_id \notin switch_calls[u].blacklist

\* An event emitted while the track it replaced was blacklisted.
C4_SwitchAwayFromBlacklisted ==
  \E u \in Users :
    /\ switch_calls[u].replaced # None
    /\ switch_calls[u].replaced \in switch_calls[u].blacklist
    /\ recommendation_rows[u].track_id # None

\* C5: every entry of the stream is eventually passed to the handler, also
\* one that had been delivered to a consumer that crashed or stopped before
\* acknowledging it.
C5_EveryEntryEventuallyHandled ==
  \A e \in EntryIds : [](e <= Len(stream) => <>(handled[e] # "no"))

\* C6: XACK of an entry happens only in the iteration over that entry, after
\* the handler has been called on it and has returned; when the handler
\* raises, the iteration ends without XACK.
C6_AckOnlyAfterHandlerReturned ==
  [][/\ \A e \in acked' \ acked :
          /\ consumer_pc = "xack"
          /\ Head(messages) = e
          /\ handled[e] = "returned"
     /\ (/\ consumer_pc = "handler"
         /\ handled[Head(messages)] = "no"
         /\ handled'[Head(messages)] = "raised")
          => /\ acked' = acked
             /\ pending' = pending
             /\ consumer_pc' # "xack"
             /\ messages' = Tail(messages)]_vars

\* One entry acknowledged after its handler returned, one left pending
\* after its handler raised.
C6_RaisedEntryLeftPending ==
  \E e \in EntryIds, f \in EntryIds :
    /\ handled[e] = "raised"
    /\ e \notin acked
    /\ \E p \in pending : p.id = e
    /\ handled[f] = "returned"
    /\ f \in acked

\* C7: once the worker has returned, or the process has exited, every
\* sample that was put on the telemetry queue has been taken off it.
C7_ShutdownDrainsQueue ==
  (worker_pc = "done" \/ main_pc = "exited")
    => (telemetry_queue = << >> /\ Len(dequeued) = Len(enqueued))

\* C8: when a flush ends after an upload that failed, by a failure reported
\* or by an exception, the storage buffer starts with the records of the
\* batch in their order, ahead of what was appended meanwhile.
C8_FailedUploadRequeuesBatch ==
  [][\A th \in Threads :
       LET failed ==
             \/ flush[th].pc = "upload" /\ flush'[th].pc = "idle"
             \/ /\ flush[th].pc = "finish"
                /\ ~flush[th].success
                /\ flush'[th].pc = "idle"
       IN  (failed /\ worker_pc' # "killed")
             => IsPrefix(flush[th].batch, storage_buffer')]_vars

\* C9: what has been dequeued, followed by what is still queued, is what
\* was enqueued, in that order; and the samples forwarded are dequeued
\* samples, each once, in the order of their enqueueing.
C9_QueueIsFifo ==
  /\ enqueued = dequeued \o telemetry_queue
  /\ \A i \in DOMAIN forwarded :
       /\ forwarded[i].sample.n \in DOMAIN dequeued
       /\ dequeued[forwarded[i].sample.n] = forwarded[i].sample
  /\ \A i \in DOMAIN forwarded, j \in DOMAIN forwarded :
       i < j => forwarded[i].sample.n < forwarded[j].sample.n

\* Two samples dequeued and forwarded while a third waits in the queue.
C9_TwoForwardedOneQueued ==
  /\ Len(dequeued) >= 2
  /\ Len(forwarded) >= 2
  /\ telemetry_queue # << >>

\* C10: while stop has not been requested, an exception raised by the
\* forwarding or by the archival buffering of a sample leaves the worker at
\* the head of its loop, and from there its next move is to dequeue the
\* oldest queued sample for forwarding.
C10_FailureKeepsWorkerRunning ==
  [][/\ (worker_failures' > worker_failures /\ ~stop_event)
          => worker_pc' = "loop"
     /\ (/\ worker_pc = "loop"
         /\ ~stop_event
         /\ telemetry_queue # << >>
         /\ worker_pc' # "loop")
          => /\ worker_pc' = "forward"
             /\ payload' = Head(telemetry_queue)]_vars

\* After a failure, with stop not requested, the worker holds the next
\* sample for forwarding.
C10_NextSampleAfterFailure ==
  /\ worker_failures >= 1
  /\ ~stop_event
  /\ worker_pc = "forward"
  /\ payload.n >= 2


\* C11: two handle_telemetry calls on different threads leave a user's
\* session as some order of the two calls, one after the other, would:
\* every switch event after a user's first was emitted by a call that had
\* read the track of the event before it as the current one, and, unless
\* forced, at least MIN_TRACK_DURATION seconds after that event.
C11_ThreadsSerialized ==
  \A u \in Users :
    LET call == switch_calls[u]
    IN  call.gap # Nothing
          => /\ call.replaced # None
             /\ (~call.force_switch => Val(call.gap) >= MIN_TRACK_DURATION)

\* C12: recommend returns no track when the catalog is empty, when the user
\* has no observed sample, and when every track of the catalog is in the
\* blacklist or among the excluded ids, whatever the other arguments are.
C12_NoneWhenNothingToOffer ==
  probe.call # Nothing
    => LET call    == Val(probe.call)
           blocked == call.args.blacklist \cup call.args.exclude_track_ids
       IN  (\/ probe.tracks = << >>
            \/ probe.hr_history = << >>
            \/ \A i \in DOMAIN probe.tracks : probe.tracks[i].id \in blocked)
             => call.returned = NoTrack

\* A call with samples observed and a catalog loaded, every track of which
\* is blacklisted or excluded, some by the one and some by the other.
C12_EveryTrackBlocked ==
  /\ probe.call # Nothing
  /\ probe.hr_history # << >>
  /\ Len(probe.tracks) > 1
  /\ Val(probe.call).args.blacklist # {}
  /\ Val(probe.call).args.exclude_track_ids # {}
  /\ \A i \in DOMAIN probe.tracks :
       probe.tracks[i].id \in Val(probe.call).args.blacklist
                                \cup Val(probe.call).args.exclude_track_ids
  /\ \E i \in DOMAIN probe.tracks :
       probe.tracks[i].id \notin Val(probe.call).args.blacklist
  /\ Val(probe.call).returned = NoTrack

\* C13: with at least one sample observed and at least one track of the
\* catalog neither blacklisted nor excluded, recommend returns a track,
\* whatever the feature values of the catalog's rows are.
C13_TrackWheneverOneIsAvailable ==
  probe.call # Nothing
    => LET call    == Val(probe.call)
           blocked == call.args.blacklist \cup call.args.exclude_track_ids
       IN  (/\ probe.hr_history # << >>
            /\ \E i \in DOMAIN probe.tracks :
                 probe.tracks[i].id \notin blocked)
             => call.returned # NoTrack

\* C14: a maybe_emit_recommendation call in which recommend returns no
\* track, forced or not, leaves the user's current track and last-switch
\* time as they were, writes no recommendation row and emits no event.
C14_NoneChangesNothing ==
  [][\A u \in PolicyUsers, force_switch \in BOOLEAN :
       (/\ maybe_emit_returns(Session, latest_global_hr,
                              latest_global_hr_timestamp, user_blacklist,
                              get_user_profile(u)) = None
        /\ MaybeEmitStep(u, force_switch))
         => /\ latest_track' = latest_track
            /\ last_track_change' = last_track_change
            /\ recommendation_rows' = recommendation_rows
            /\ track_broadcasts' = track_broadcasts
            /\ switch_calls' = switch_calls]_vars

\* A forced call has returned no track to a user who is playing one.
C14_ForcedCallReturnedNone ==
  /\ last_request.op = "maybe_emit_recommendation"
  /\ last_request.returned = None
  /\ last_request.force_switch
  /\ latest_track[last_request.user_id] # None
  /\ last_track_change[last_request.user_id] # Nothing

\* C15: for every track recommend scores, each of the six terms of the
\* score lies between 0 and 1, and so does the weighted sum.
C15_TermsInUnitInterval ==
  (probe.call # Nothing /\ probe.hr_history # << >>)
    => LET args      == Val(probe.call).args
           intensity == Intensity(args.user_profile, probe.hr_history)
           target    == TargetOf(args.latest_track, intensity)
       IN  \A i \in DOMAIN probe.tracks :
             LET track == probe.tracks[i]
             IN  ~Skipped(track, args.blacklist, args.exclude_track_ids)
                   => /\ energy_alignment(track, intensity) \in 0..SCALE
                      /\ artist_similarity(track, target) \in 0..SCALE
                      /\ preference_similarity(track, args.preference_vector)
                           \in 0..SCALE
                      /\ valence_similarity(track, target) \in 0..SCALE
                      /\ dance_similarity(track, target) \in 0..SCALE
                      /\ feature_similarity(track, target) \in 0..SCALE
                      /\ combined_score(track, target, intensity,
                                        args.preference_vector)
                           \in 0..(100 * SCALE)

\* C16: the intensity recommend computes lies between 0 and 1; before the
\* trend nudge it is (hr_last - rest_hr) / max(max_hr - rest_hr, 1) cut to
\* that range, the nudge moves it by 0.05 within the range; the divisor is
\* at least 1, and is 1 when max_hr is not above rest_hr.
C16_IntensityClamped ==
  (probe.call # Nothing /\ probe.hr_history # << >> /\ probe.tracks # << >>)
    => LET user_profile == Val(probe.call).args.user_profile
           hr_last      == probe.hr_history[Len(probe.hr_history)]
           divisor      == IF user_profile.max_hr - user_profile.rest_hr > 1
                             THEN user_profile.max_hr - user_profile.rest_hr
                           ELSE 1
           ratio        == ((hr_last - user_profile.rest_hr) * SCALE)
                             \div divisor
           intensity0   == IF ratio < 0 THEN 0
                           ELSE IF ratio > SCALE THEN SCALE ELSE ratio
           trend        == _trend(probe.hr_history)
           intensity    == Intensity(user_profile, probe.hr_history)
       IN  /\ hrr(user_profile) = divisor
           /\ intensity \in 0..SCALE
           /\ intensity =
                IF trend > TREND_THRESHOLD * SCALE
                  THEN Min2(intensity0 + SCALE \div 20, SCALE)
                ELSE IF trend < -(TREND_THRESHOLD * SCALE)
                  THEN Max2(intensity0 - SCALE \div 20, 0)
                ELSE intensity0

\* A call for a profile whose maximum is not above its resting rate, with
\* a sample above both, has returned a track.
C16_DegenerateProfileServed ==
  /\ probe.call # Nothing
  /\ probe.hr_history # << >>
  /\ Val(probe.call).args.user_profile.max_hr
       <= Val(probe.call).args.user_profile.rest_hr
  /\ probe.hr_history[Len(probe.hr_history)]
       > Val(probe.call).args.user_profile.rest_hr
  /\ Val(probe.call).returned # NoTrack

\* C17: after k observe_hr calls the history holds the latest min(k, N)
\* values observed, in the order they came, N being the window; it is never
\* longer than N.
C17_HistoryIsLastN ==
  LET k == Len(probe.observed)
      n == Min2(k, HistoryWindow)
  IN  /\ Len(probe.hr_history) <= HistoryWindow
      /\ probe.hr_history = SubSeq(probe.observed, k - n + 1, k)

\* More values observed than the window holds, the oldest of them unlike
\* the oldest kept.
C17_OldestEvicted ==
  /\ Len(probe.observed) > HistoryWindow
  /\ probe.observed[1] # probe.hr_history[1]

\* C20: for a user without a current track, a maybe_emit_recommendation call
\* in which recommend returns a track makes that track the current one,
\* sets the last-switch time to now, writes the row and emits the event,
\* forced or not.
C20_FirstTrackAlwaysSwitches ==
  [][\A u \in PolicyUsers, force_switch \in BOOLEAN :
       LET returned == maybe_emit_returns(Session, latest_global_hr,
                                          latest_global_hr_timestamp,
                                          user_blacklist, get_user_profile(u))
       IN  (/\ latest_track[u] = None
            /\ returned # None
            /\ MaybeEmitStep(u, force_switch))
             => /\ latest_track'[u] = returned
                /\ last_track_change'[u] = Just(now)
                /\ recommendation_rows'[u].track_id = returned
                /\ recommendation_rows'[u].timestamp = now
                /\ track_broadcasts'[u].track_id = returned]_vars

\* A first track set by a call that was not forced, after the clock has
\* moved.
C20_FirstTrackNotForced ==
  \E u \in PolicyUsers :
    /\ switch_calls[u].replaced = None
    /\ ~switch_calls[u].force_switch
    /\ switch_calls[u].gap = Nothing
    /\ latest_track[u] # None
    /\ last_track_change[u] = Just(now)
    /\ now > 0

C19_EnqueueNeverBlocks ==
  /\ []((main_pc = "run_ble" /\ Len(enqueued) < MaxSamples)
          => ENABLED hr_handler_on(<< 0, 70 >>))
  /\ [][enqueued' # enqueued
          => /\ Len(enqueued') = Len(enqueued) + 1
             /\ telemetry_queue'
                  = Append(telemetry_queue, enqueued'[Len(enqueued')])
             /\ UNCHANGED << worker_pc, payload, flush, storage_buffer,
                             stop_event, dequeued, forwarded >>]_vars

\* Two samples were enqueued while the worker was inside the forwarding of
\* an earlier one.
C19_EnqueuedBehindBusyWorker ==
  /\ worker_pc = "forward"
  /\ Len(telemetry_queue) >= 2
  /\ telemetry_queue[1].n = payload.n + 1
  /\ main_pc = "run_ble"


\* C21: in every maybe_emit_recommendation call the user's current track
\* changes if and only if that call persists a recommendation row and
\* broadcasts a "track" event for the user, and the row and event of a
\* change carry the new track, the time of the switch and the last element
\* of the user's hr_history.
C21_TrackChangesIffRowAndEvent ==
  [][\A u \in PolicyUsers, force_switch \in BOOLEAN :
       LET changed == latest_track'[u] # latest_track[u]
           emitted == \/ recommendation_rows'[u] # recommendation_rows[u]
                      \/ track_broadcasts'[u] # track_broadcasts[u]
       IN  MaybeEmitStep(u, force_switch)
             => /\ changed <=> emitted
                /\ changed =>
                     /\ recommendation_rows'[u] =
                          [timestamp |-> now,
                           track_id |-> latest_track'[u],
                           hr |-> Just(hr_history'[u][Len(hr_history'[u])]),
                           user_id |-> u]
                     /\ track_broadcasts'[u] =
                          [user_id |-> u,
                           track_id |-> latest_track'[u]]]_vars


\* C22 as stated: a /telemetry payload or a stream entry whose hr is
\* missing or is not an integer leaves every hr_history, the latest global
\* heart rate, every current track and last-switch time as they were,
\* persists no row and emits no event.
C22_NonIntegerSampleSkipped ==
  [][\A hr_raw \in {r \in RawSamples : r.kind # "int"} :
       (/\ last_request'.op \in {"telemetry", "_redis_handler"}
        /\ telemetry_on(hr_raw) \/ _redis_handler_on(hr_raw))
         => UNCHANGED << hr_history, latest_global_hr,
                         latest_global_hr_timestamp, user_hr_versions,
                         user_latest_hr, latest_track, last_track_change,
                         telemetry_rows, hr_broadcasts,
                         recommendation_rows, track_broadcasts >>]_vars

\* C22, amended: a /telemetry payload or a stream entry whose hr is missing
\* or is rejected by int() (text that is no number in a payload; anything
\* but an integer literal in a stream entry) leaves every hr_history, the
\* latest global heart rate and its timestamp, every current track and
\* last-switch time as they were, persists no telemetry or recommendation
\* row and emits no "hr" or "track" event; and a valid sample handled after
\* it is processed.
C22_MalformedSampleSkipped ==
  [][/\ \A hr_raw \in {r \in RawSamples : r.kind # "int"} :
          (/\ last_request'.op \in {"telemetry", "_redis_handler"}
           /\ \/ hr_raw.kind \in {"missing", "text"} /\ telemetry_on(hr_raw)
              \/ _redis_handler_on(hr_raw))
            => UNCHANGED << hr_history, latest_global_hr,
                            latest_global_hr_timestamp, user_hr_versions,
                            user_latest_hr, latest_track, last_track_change,
                            telemetry_rows, hr_broadcasts,
                            recommendation_rows, track_broadcasts >>
     /\ (/\ last_request.op \in {"telemetry", "_redis_handler"}
         /\ last_request.error \in {"hr is required",
                                    "hr must be an integer", "ValueError"})
          => \A sample \in NextSamples :
               LET hr_raw == [kind |-> "int", value |-> sample.hr,
                              timestamp |-> sample.timestamp]
               IN  (/\ last_request'.op \in {"telemetry", "_redis_handler"}
                    /\ telemetry_on(hr_raw) \/ _redis_handler_on(hr_raw))
                     => /\ telemetry_rows' = [timestamp |-> sample.timestamp,
                                              hr |-> sample.hr]
                        /\ latest_global_hr' = Just(sample.hr)
                        /\ \A u \in target_users(active_users) :
                             /\ hr_history'[u] # << >>
                             /\ hr_history'[u][Len(hr_history'[u])]
                                  = sample.hr]_vars

\* A malformed POST /telemetry was answered with 400 after a valid sample
\* had been stored.
C22_RejectedAfterValidSample ==
  /\ last_request.op = "telemetry"
  /\ last_request.error = "hr must be an integer"
  /\ telemetry_rows # NoSample
  /\ \E u \in Users : latest_track[u] # None
  /\ ENABLED telemetry


\* C23: recommend changes neither the catalog nor the histories: the keys
\* of hr_history are the same after the call, so a user the service has
\* never observed gets no entry; and what it returns is a function of the
\* user's history, the catalog and the arguments alone.
C23_RecommendIsPure ==
  /\ [][(probe.call = Nothing /\ probe'.call # Nothing)
          => /\ probe'.tracks = probe.tracks
             /\ probe'.users = probe.users
             /\ probe'.hr_history = probe.hr_history
             /\ probe'.observed = probe.observed]_vars
  /\ [](probe.call # Nothing
          => LET args == Val(probe.call).args
             IN  Val(probe.call).returned =
                   recommend_in(probe.tracks, args.user_profile,
                                probe.hr_history, args.latest_track,
                                args.blacklist, args.preference_vector,
                                args.exclude_track_ids))

\* recommend was called for a user the service has never observed, over a
\* catalog with tracks, and returned None without making a history entry.
C23_UnknownUserAsked ==
  /\ probe.call # Nothing
  /\ probe.tracks # << >>
  /\ probe.users = {}
  /\ probe.hr_history = << >>
  /\ Val(probe.call).returned = NoTrack


C25_ReturnsFirstMaximum ==
  (probe.call # Nothing /\ Val(probe.call).returned # NoTrack)
    => LET args      == Val(probe.call).args
           tracks    == probe.tracks
           intensity == Intensity(args.user_profile, probe.hr_history)
           target    == TargetOf(args.latest_track, intensity)
           total(i)  ==
             35 * energy_alignment(tracks[i], intensity)
               + 20 * artist_similarity(tracks[i], target)
               + 15 * preference_similarity(tracks[i],
                                            args.preference_vector)
               + 10 * valence_similarity(tracks[i], target)
               + 10 * dance_similarity(tracks[i], target)
               + 10 * feature_similarity(tracks[i], target)
           candidates ==
             {i \in 1..Len(tracks) :
                tracks[i].id \notin args.blacklist \cup args.exclude_track_ids}
       IN  \E i \in candidates :
             /\ tracks[i] = Val(probe.call).returned
             /\ \A j \in candidates :
                  /\ total(j) <= total(i)
                  /\ total(j) = total(i) => i <= j

\* Of two tracks that are alike in everything but the id, both candidates,
\* the earlier one was returned.
C25_TieWentToEarlierTrack ==
  /\ probe.call # Nothing
  /\ probe.tracks = CatalogEnergyPair
  /\ Val(probe.call).returned = CatalogEnergyPair[2]
  /\ "t3" \notin Val(probe.call).args.blacklist
                   \cup Val(probe.call).args.exclude_track_ids

\* Lengths of the histories _trend is evaluated on besides the window's.
MaxTrendLen == 4

\* C26: _trend returns 0 for a user without history or with one sample,
\* and otherwise the last sample minus the arithmetic mean of all earlier
\* samples in the window (in SCALE units, rounded down).
C26_TrendIsLastMinusMeanOfEarlier ==
  (probe.helper # Nothing /\ Val(probe.helper).method = "_trend")
    => LET returned == Val(probe.helper).returned
           window   == Len(probe.hr_history)
           earlier  == [i \in 1..(window - 1) |-> probe.hr_history[i]]
           surplus  == (probe.hr_history[window] * (window - 1)
                          - SumSeq(earlier)) * SCALE
       IN  /\ window <= 1 => returned = 0
           /\ window > 1
                => /\ returned * (window - 1) <= surplus
                   /\ surplus < (returned + 1) * (window - 1)
           /\ \A n \in 2..MaxTrendLen :
                \A history \in [1..n -> {70, 75, 100, 130}] :
                  LET excess == (history[n] * (n - 1)
                                   - SumSeq(SubSeq(history, 1, n - 1))) * SCALE
                  IN  /\ _trend(history) * (n - 1) <= excess
                      /\ excess < (_trend(history) + 1) * (n - 1)
           /\ _trend(<< >>) = 0
           /\ \A hr \in ProbeHRValues : _trend(<< hr >>) = 0

\* _trend was called with two samples in the window and returned their
\* difference.
C26_TrendOfTwoSamples ==
  /\ probe.helper # Nothing
  /\ Val(probe.helper).method = "_trend"
  /\ Len(probe.hr_history) = 2
  /\ Val(probe.helper).returned
       = (probe.hr_history[2] - probe.hr_history[1]) * SCALE
  /\ Val(probe.helper).returned # 0

\* C27: the intensity recommend uses is the clamped heart-rate reserve
\* ratio raised by 0.05 exactly when trend > 5, lowered by 0.05 exactly
\* when trend < -5 and left as it is when -5 <= trend <= 5, and cut to
\* [0, 1] again; history [100, 100, 100, 130] has trend 30 and is nudged
\* up by 0.05.
C27_NudgeThresholdsAreStrict ==
  (probe.call # Nothing /\ probe.hr_history # << >> /\ probe.tracks # << >>)
    => LET user_profile == Val(probe.call).args.user_profile
           history      == probe.hr_history
           n            == Len(history)
           excess       == history[n] * (n - 1)
                             - SumSeq(SubSeq(history, 1, n - 1))
           rising       == n > 1 /\ excess > TREND_THRESHOLD * (n - 1)
           falling      == n > 1 /\ excess < -(TREND_THRESHOLD * (n - 1))
           base         == Intensity(user_profile, << history[n] >>)
           intensity    == Intensity(user_profile, history)
           defaults     == [rest_hr |-> DEFAULT_REST_HR,
                            max_hr |-> DEFAULT_MAX_HR]
       IN  /\ rising => intensity = Min2(base + SCALE \div 20, SCALE)
           /\ falling => intensity = Max2(base - SCALE \div 20, 0)
           /\ (~rising /\ ~falling) => intensity = base
           /\ _trend(<< 100, 100, 100, 130 >>) = 30 * SCALE
           /\ Intensity(defaults, << 100, 100, 100, 130 >>)
                = Intensity(defaults, << 130 >>) + SCALE \div 20

\* recommend was called with a trend of exactly TREND_THRESHOLD and of
\* exactly -TREND_THRESHOLD.
C27_TrendAtThreshold ==
  /\ probe.call # Nothing
  /\ probe.tracks # << >>
  /\ probe.hr_history \in {<< 70, 75 >>, << 75, 70 >>}
  /\ _trend(probe.hr_history) \in {TREND_THRESHOLD * SCALE,
                                   -(TREND_THRESHOLD * SCALE)}
  /\ Val(probe.call).returned # NoTrack

\* C28: _artist_similarity gives the same value with its arguments
\* exchanged, 0.5 when either set is empty and |A & B| / |A | B| otherwise.
C28_ArtistSimilarityIsJaccard ==
  (probe.helper # Nothing /\ Val(probe.helper).method = "_artist_similarity")
    => LET A == Val(probe.helper).previous
           B == Val(probe.helper).current
           returned == Val(probe.helper).returned
       IN  /\ returned = _artist_similarity(B, A)
           /\ (A = {} \/ B = {}) => returned = SCALE \div 2
           /\ (A # {} /\ B # {})
                => /\ returned * Cardinality(A \cup B)
                        <= Cardinality(A \cap B) * SCALE
                   /\ Cardinality(A \cap B) * SCALE
                        < (returned + 1) * Cardinality(A \cup B)

\* _artist_similarity was called with two sets that share one artist of
\* three.
C28_PartialOverlap ==
  /\ probe.helper # Nothing
  /\ Val(probe.helper).method = "_artist_similarity"
  /\ Val(probe.helper).previous = {"a", "b"}
  /\ Val(probe.helper).current = {"b", "c"}
  /\ Val(probe.helper).returned = SCALE \div 3

\* C29: of two catalog tracks that differ in energy only, the one whose
\* energy is closer to the intensity has the higher combined score, and
\* recommend does not return the other while the closer one is a
\* candidate; for rest_hr 60, max_hr 190 and history [150] the intensity
\* is 0.692 and the track of energy 0.70 is returned rather than its twin
\* of energy 0.10.
C29_CloserEnergyPreferred ==
  (probe.call # Nothing /\ probe.hr_history # << >> /\ probe.tracks # << >>)
    => LET args      == Val(probe.call).args
           tracks    == probe.tracks
           intensity == Intensity(args.user_profile, probe.hr_history)
           target    == TargetOf(args.latest_track, intensity)
           skipped   == args.blacklist \cup args.exclude_track_ids
           twins(i, j) ==
             /\ tracks[i].danceability = tracks[j].danceability
             /\ tracks[i].tempo = tracks[j].tempo
             /\ tracks[i].valence = tracks[j].valence
             /\ tracks[i].artist_set = tracks[j].artist_set
           defaults  == [rest_hr |-> DEFAULT_REST_HR,
                         max_hr |-> DEFAULT_MAX_HR]
       IN  /\ \A i, j \in 1..Len(tracks) :
                (/\ twins(i, j)
                 /\ Abs(tracks[i].energy - intensity)
                      < Abs(tracks[j].energy - intensity))
                  => /\ combined_score(tracks[i], target, intensity,
                                       args.preference_vector)
                          > combined_score(tracks[j], target, intensity,
                                           args.preference_vector)
                     /\ tracks[i].id \notin skipped
                          => Val(probe.call).returned # tracks[j]
           /\ Intensity(defaults, << 150 >>) = (90 * SCALE) \div 130
           /\ recommend_in(CatalogEnergyPair, defaults, << 150 >>, NoTrack,
                           {}, << >>, {}) = CatalogEnergyPair[2]

\* With a low intensity the twin of energy 0.10 was returned although the
\* twin of energy 0.70 was a candidate too.
C29_LowEnergyTwinChosen ==
  /\ probe.call # Nothing
  /\ probe.tracks = CatalogEnergyPair
  /\ Val(probe.call).returned = CatalogEnergyPair[1]
  /\ "t2" \notin Val(probe.call).args.blacklist
                   \cup Val(probe.call).args.exclude_track_ids
  /\ Intensity(Val(probe.call).args.user_profile, probe.hr_history) < 400


\* C30: the flush that follows the appending of a sample to the buffer,
\* the buffer still holding records when it looks, goes on to upload the
\* buffer if and only if the buffer holds at least STORAGE_BATCH_SIZE
\* records or at least STORAGE_FLUSH_SECONDS have passed since
\* last_storage_flush, the time of the last upload that succeeded;
\* otherwise it returns with buffer, uploads and last_storage_flush as they
\* were.  A forced flush goes on to upload whatever a non-empty buffer
\* holds.
C30_FlushWhenDue ==
  [][\A th \in Threads :
       (/\ flush[th].pc = "check"
        /\ storage_enabled
        /\ storage_buffer # << >>
        /\ flush_check(th))
         => LET due ==
                  \/ Len(storage_buffer) >= STORAGE_BATCH_SIZE
                  \/ clock - last_storage_flush >= STORAGE_FLUSH_SECONDS
                attempted ==
                  /\ flush'[th].pc = "clear"
                  /\ flush'[th].batch = storage_buffer
            IN  /\ flush[th].force => attempted
                /\ ~flush[th].force => (attempted <=> due)
                /\ ~attempted
                     => /\ flush'[th] = NoFrame
                        /\ UNCHANGED << storage_buffer, uploaded,
                                        last_storage_flush >>]_vars

\* After an upload that succeeded the worker has buffered one more sample
\* and gone back to its loop without uploading it: neither threshold was
\* reached.
C30_SampleKeptForLater ==
  /\ storage_enabled
  /\ worker_pc = "loop"
  /\ flush["worker"] = NoFrame
  /\ uploaded # << >>
  /\ Len(storage_buffer) = 1
  /\ storage_buffer[1] = buffered[Len(buffered)]
  /\ clock - last_storage_flush < STORAGE_FLUSH_SECONDS
  /\ main_pc = "run_ble"


\* C31: the consumer thread returns only when stop has been requested.  A
\* read that raises leads to the backoff and from there to the test of the
\* loop again, where, stop not requested, the next read can be made; a
\* handler, or an XACK, that raises on one entry leads to the next entry
\* of the same read, or to the loop's test when it was the last; and the
\* backoff always ends.
C31_ErrorsDoNotEndLoop ==
  /\ [][/\ consumer_pc' = "stopped" => (consumer_pc = "stopped" \/ stop_flag)
        /\ (consumer_pc = "xreadgroup" /\ consumer_pc' = "backoff")
             => UNCHANGED << messages, stop_flag, last_delivered, pending >>
        /\ (consumer_pc = "backoff" /\ consumer_pc' \notin {"backoff", "down"})
             => consumer_pc' = "read"
        /\ (/\ consumer_pc = "handler"
            /\ handled'[Head(messages)] = "raised"
            /\ consumer_pc' # "down")
             => /\ messages' = Tail(messages)
                /\ consumer_pc' = IF Tail(messages) = << >> THEN "read"
                                  ELSE "handler"
        /\ (/\ consumer_pc = "xack"
            /\ consumer_pc' \notin {"xack", "down"})
             => /\ messages' = Tail(messages)
                /\ consumer_pc' = IF Tail(messages) = << >> THEN "read"
                                  ELSE "handler"]_vars
  /\ []((consumer_pc = "read" /\ ~stop_flag) => ENABLED _loop)
  /\ [](consumer_pc = "xreadgroup" => ENABLED xreadgroup)
  /\ (consumer_pc = "backoff") ~> (consumer_pc \in {"read", "down"})

\* The handler raised on the first entry of a read of three, and the loop
\* stands before the handler call of the second.
C31_NextEntryAfterHandlerError ==
  /\ consumer_pc = "handler"
  /\ crashes = 0
  /\ messages = << 2, 3 >>
  /\ handled[1] = "raised"
  /\ handled[2] = "no"
  /\ ~stop_flag
  /\ \A e \in 1..3 : \E q \in pending : q.id = e


\* C32: start() creates the group when it is absent, with its cursor at
\* 0-0 and nothing pending, so that the next read returns the entries the
\* stream already holds, oldest first; when the group exists, start() can
\* go on to the loop, and whether it does or raises, the group's cursor
\* and pending entries are as before; an error other than BUSYGROUP
\* leaves start() as an exception, no thread started and the group as it
\* was.
C32_EnsureGroupIdempotent ==
  /\ [][start
          => /\ (~group_created /\ group_created')
                  => /\ last_delivered' = 0
                     /\ pending' = {}
                     /\ never_delivered(stream', last_delivered', ReadCount)
                          = [i \in 1..Min2(Len(stream), ReadCount) |-> i]
                     /\ consumer_pc' = "read"
             /\ group_created
                  => /\ group_created'
                     /\ last_delivered' = last_delivered
                     /\ pending' = pending
             /\ consumer_pc' = "down"
                  => UNCHANGED << group_created, last_delivered, pending >>]_vars
  /\ [](consumer_pc \in {"init", "down", "stopped"}
          => ENABLED (start /\ consumer_pc' = "read"))

\* A backend came up again over a group that had delivered entries, one
\* of them still pending, and stands before its first read.
C32_RestartOverExistingGroup ==
  /\ crashes >= 1
  /\ consumer_pc = "read"
  /\ messages = << >>
  /\ group_created
  /\ last_delivered = 2
  /\ Len(stream) = 3
  /\ \E q \in pending : q.consumer # consumer_name


\* C33: once stop has been requested the thread goes into no read: a read
\* that was in flight returns, the entries it returned are handled, and
\* from the loop's test the thread can only return; and, the read and the
\* handlers returning, it does return (or the process has gone down).
C33_StopEndsLoop ==
  /\ [][/\ (stop_flag /\ consumer_pc' = "xreadgroup")
             => consumer_pc = "xreadgroup"
        /\ (stop_flag /\ consumer_pc = "read")
             => consumer_pc' \in {"read", "stopped", "down"}
        /\ (stop_flag /\ consumer_pc \in {"handler", "xack"})
             => /\ Len(messages') <= Len(messages)
                /\ last_delivered' = last_delivered]_vars
  /\ stop_flag ~> (consumer_pc \in {"stopped", "down"})

\* Stop was requested no later than the return of a read of two entries,
\* neither of which has been handled yet.
C33_StopWithEntriesInHand ==
  /\ stop_flag
  /\ crashes = 0
  /\ consumer_pc = "handler"
  /\ messages = << 1, 2 >>
  /\ handled[1] = "no"
  /\ handled[2] = "no"


C35_AckOnlyWhenProcessed ==
  /\ acked \subseteq processed
  /\ \A e \in EntryIds :
       (handled[e] # "no" /\ e \notin processed)
         => \E q \in pending : q.id = e


\* C36: no record that was appended to the storage buffer is in two
\* uploaded batches, or twice in one.
C36_EachRecordArchivedOnce ==
  LET Count(rec) ==
        Cardinality({<< i, j >> \in (DOMAIN uploaded) \X (1..MaxSamples) :
                       j <= Len(uploaded[i]) /\ uploaded[i][j] = rec})
  IN  \A k \in DOMAIN buffered : Count(buffered[k]) <= 1


\* C37: when /feedback has handled a dislike of the track the user is
\* playing, a sample having been received and some track of the catalog
\* being outside the user's blacklist with the disliked track added, the
\* user's current track is another one and is not in the user's blacklist.
C37_DislikedTrackReplaced ==
  [][last_request'.op = "feedback"
       => \A u \in Users, track_id \in TrackIds :
            (/\ FeedbackStep(u, "dislike", track_id)
             /\ latest_track[u] = track_id
             /\ latest_global_hr # Nothing
             /\ TrackIds \ (user_blacklist[u] \cup {track_id}) # {})
              => /\ latest_track'[u] # track_id
                 /\ latest_track'[u] \notin user_blacklist'[u]]_vars


\* C38: a sample that /telemetry accepts, with a rate other than the one
\* of the sample before it, is appended once to the heart-rate history of
\* every user it targets, whatever its timestamp.
C38_SampleAppendedOnce ==
  [][(/\ last_request'.op = "telemetry"
      /\ last_request'.status = 200
      /\ latest_global_hr' # latest_global_hr)
       => \A u \in target_users(active_users) :
            hr_history'[u]
              = observe_append(hr_history[u], Val(latest_global_hr'))]_vars


\* C39: every sample that was sent went over the transport the process is
\* configured for, the stream when redis_client is set and the HTTP
\* endpoint otherwise, and no sample was sent twice; a forwarding call that
\* raises leaves the telemetry queue, the archival buffer and the record of
\* what was sent as they were; no dequeued sample is on the queue again;
\* and every record that was appended to the archival buffer is a sample
\* whose forwarding call returned.
C39_ForwardedOnceOrDropped ==
  /\ [](/\ \A i \in DOMAIN forwarded :
             /\ forwarded[i].transport
                  = IF redis_client THEN "stream" ELSE "http"
             /\ \E k \in DOMAIN dequeued : dequeued[k] = forwarded[i].sample
             /\ \A j \in DOMAIN forwarded :
                  forwarded[j].sample = forwarded[i].sample => j = i
        /\ \A k \in DOMAIN dequeued, q \in DOMAIN telemetry_queue :
             telemetry_queue[q] # dequeued[k]
        /\ \A b \in DOMAIN buffered :
             \E i \in DOMAIN forwarded : forwarded[i].sample = buffered[b])
  /\ [][/\ worker_pc = "forward"
             => /\ Len(forwarded') <= Len(forwarded) + 1
                /\ Len(forwarded') = Len(forwarded) + 1
                     => forwarded'[Len(forwarded')].sample = payload
        /\ (worker_pc = "forward" /\ worker_failures' > worker_failures)
             => /\ worker_pc' = "loop"
                /\ UNCHANGED << telemetry_queue, storage_buffer, buffered,
                                forwarded, dequeued >>]_vars

\* The forwarding of the first sample raised and that of the second
\* returned: the second is in the archival buffer, the first is in neither
\* the queue nor the buffer.
C39_FirstDroppedSecondArchived ==
  /\ storage_enabled
  /\ redis_client
  /\ worker_failures = 1
  /\ Len(dequeued) = 2
  /\ telemetry_queue = << >>
  /\ Len(forwarded) = 1
  /\ forwarded[1].sample = dequeued[2]
  /\ forwarded[1].transport = "stream"
  /\ buffered = << dequeued[2] >>


\* C40: a flush that is not forced and uploads fewer than
\* STORAGE_BATCH_SIZE records read the clock at least STORAGE_FLUSH_SECONDS
\* after the previous successful flush, or, no flush having succeeded yet,
\* after the start of the process.
C40_SmallBatchOnlyAfterInterval ==
  [][\A th \in Threads :
       (/\ flush[th].pc = "upload"
        /\ uploaded' # uploaded
        /\ ~flush[th].force
        /\ Len(flush[th].batch) < STORAGE_BATCH_SIZE)
         => flush[th].now - (IF uploaded = << >> THEN ProcessStart
                             ELSE last_storage_flush)
              >= STORAGE_FLUSH_SECONDS]_vars

=============================================================================
